---- MODULE Spec2Model ----
(***************************************************************************)
(* Guahh AI: the retrieval-and-generation engine (engine.js) and the chat  *)
(* controller that invokes it.  Strings are sequences of one-character     *)
(* strings, so that lower-casing, trimming, splitting and the regular      *)
(* expressions of the source are computed and not assumed.                 *)
(***************************************************************************)
EXTENDS Integers, Sequences, FiniteSets, TLC

(* ------------------------------------------------------------------ *)
(* Characters and strings                                              *)
(* ------------------------------------------------------------------ *)
LowerChars == <<"a","b","c","d","e","f","g","h","i","j","k","l","m",
                "n","o","p","q","r","s","t","u","v","w","x","y","z">>
UpperChars == <<"A","B","C","D","E","F","G","H","I","J","K","L","M",
                "N","O","P","Q","R","S","T","U","V","W","X","Y","Z">>
DigitChars == <<"0","1","2","3","4","5","6","7","8","9">>
WS == {" ", "\t", "\n"}
Punct == {".", ",", "!", "?", ";", ":"}
SentenceEnd == {".", "!", "?"}

\* a string literal as a sequence of characters
Str(s) == [i \in 1..Len(s) |-> SubSeq(s, i, i)]

Range(s) == {s[i] : i \in DOMAIN s}
IsLower(c) == c \in Range(LowerChars)
IsUpper(c) == c \in Range(UpperChars)
IsDigit(c) == c \in Range(DigitChars)
\* \w of the regular expressions
IsWordChar(c) == IsLower(c) \/ IsUpper(c) \/ IsDigit(c) \/ c = "_"

ToLowerChar(c) ==
    IF IsUpper(c) THEN LowerChars[CHOOSE i \in 1..26 : UpperChars[i] = c] ELSE c
ToUpperChar(c) ==
    IF IsLower(c) THEN UpperChars[CHOOSE i \in 1..26 : LowerChars[i] = c] ELSE c
\* String.prototype.toLowerCase
ToLower(s) == [i \in 1..Len(s) |-> ToLowerChar(s[i])]

\* Strings are processed by halving, so that the depth of the evaluation
\* grows with the logarithm of the length.  Flatten(ps) is the concatenation
\* ps[1] \o ... \o ps[Len(ps)].
RECURSIVE FlattenRange(_, _, _)
FlattenRange(ps, lo, hi) ==
    IF lo > hi THEN <<>>
    ELSE IF lo = hi THEN ps[lo]
    ELSE LET mid == (lo + hi) \div 2
         IN  FlattenRange(ps, lo, mid) \o FlattenRange(ps, mid + 1, hi)
Flatten(ps) == FlattenRange(ps, 1, Len(ps))

\* s.replace(/[^...]/g, ''): keep the characters in keep
KeepChars(s, keep) == SelectSeq(s, LAMBDA c : c \in keep)

\* the least index from i on whose character is (is not) whitespace, or
\* Len(s) + 1 if there is none
NextWS(s, i) ==
    IF \E j \in i..Len(s) : s[j] \in WS
    THEN CHOOSE j \in i..Len(s) : s[j] \in WS /\ \A k \in i..(j - 1) : s[k] \notin WS
    ELSE Len(s) + 1
NextNonWS(s, i) ==
    IF \E j \in i..Len(s) : s[j] \notin WS
    THEN CHOOSE j \in i..Len(s) : s[j] \notin WS /\ \A k \in i..(j - 1) : s[k] \in WS
    ELSE Len(s) + 1

TrimLeft(s) == SubSeq(s, NextNonWS(s, 1), Len(s))
TrimRight(s) ==
    IF \E j \in 1..Len(s) : s[j] \notin WS
    THEN SubSeq(s, 1, CHOOSE j \in 1..Len(s) :
                        s[j] \notin WS /\ \A k \in (j + 1)..Len(s) : s[k] \in WS)
    ELSE <<>>
\* String.prototype.trim
Trim(s) == TrimRight(TrimLeft(s))

\* s.split(/\s+/): a leading or trailing run of whitespace yields an empty
\* first or last element, and "" splits into [""]; one element per step
RECURSIVE SplitWSFrom(_, _)
SplitWSFrom(s, i) ==
    LET e == NextWS(s, i)
    IN  IF e > Len(s) THEN <<SubSeq(s, i, Len(s))>>
        ELSE <<SubSeq(s, i, e - 1)>> \o SplitWSFrom(s, NextNonWS(s, e))
SplitWS(s) == SplitWSFrom(s, 1)

\* s.split(" "): every single space separates
RECURSIVE SplitSpaceFrom(_, _)
SplitSpaceFrom(s, i) ==
    IF \E j \in i..Len(s) : s[j] = " "
    THEN LET e == CHOOSE j \in i..Len(s) : s[j] = " " /\ \A k \in i..(j - 1) : s[k] # " "
         IN  <<SubSeq(s, i, e - 1)>> \o SplitSpaceFrom(s, e + 1)
    ELSE <<SubSeq(s, i, Len(s))>>
SplitSpace(s) == SplitSpaceFrom(s, 1)

\* Array.prototype.filter
SelectSeqLen(ws, minLen) == SelectSeq(ws, LAMBDA w : Len(w) >= minLen)

\* Array.prototype.join
Join(ws, sep) ==
    Flatten([i \in 1..Len(ws) |-> IF i = 1 THEN ws[i] ELSE sep \o ws[i]])

HasPrefix(s, p) == Len(s) >= Len(p) /\ SubSeq(s, 1, Len(p)) = p
\* String.prototype.includes / an unanchored literal regular expression
Contains(s, p) == \E i \in 0..(Len(s) - Len(p)) : SubSeq(s, i + 1, i + Len(p)) = p

\* s.replace(/\bpat\b/g, rep) for a pattern that starts and ends with a word
\* character: a match needs a non-word character or the string edge on both sides
\* (such matches cannot overlap)
WordMatches(s, pat) ==
    { i \in 1..(Len(s) - Len(pat) + 1) :
        /\ SubSeq(s, i, i + Len(pat) - 1) = pat
        /\ (i = 1 \/ ~IsWordChar(s[i - 1]))
        /\ (i + Len(pat) > Len(s) \/ ~IsWordChar(s[i + Len(pat)])) }
ReplaceWord(s, pat, rep) ==
    LET ms == WordMatches(s, pat)
    IN  IF ms = {} THEN s
        ELSE Flatten([i \in 1..Len(s) |->
                IF i \in ms THEN rep
                ELSE IF \E m \in ms : m < i /\ i < m + Len(pat) THEN <<>>
                ELSE <<s[i]>>])

\* the elements of a sequence as a set, and a sequence without repetitions
SeqToSet(ws) == Range(ws)

(* ------------------------------------------------------------------ *)
(* Tokenizer and query understanding                                   *)
(* ------------------------------------------------------------------ *)
AlnumWS == Range(LowerChars) \cup Range(DigitChars) \cup WS
AlphaWS == Range(LowerChars) \cup WS

\* tokenize(text): lower-case, strip everything outside [a-z0-9\s], split on
\* whitespace, keep the tokens longer than 2
tokenize(text) ==
    IF text = <<>> THEN <<>>
    ELSE SelectSeqLen(SplitWS(KeepChars(ToLower(text), AlnumWS)), 3)

\* preprocessQuery(query): lower-case and trim, then expand abbreviations
preprocessQuery(query) ==
    LET c0 == Trim(ToLower(query))
        c1 == ReplaceWord(c0, Str("ai"), Str("artificial intelligence"))
        c2 == ReplaceWord(c1, Str("what's"), Str("what is"))
        c3 == ReplaceWord(c2, Str("who's"), Str("who is"))
    IN  ReplaceWord(c3, Str("how's"), Str("how is"))

\* the alternatives of the nine case-insensitive metaPatterns
metaPatterns ==
    { Str("who are you"), Str("what are you"), Str("what is you"),
      Str("your name"), Str("what can you do"),
      Str("what are your purpose"), Str("what are your function"),
      Str("what is your purpose"), Str("what is your function"),
      Str("how do you work"), Str("tell me about yourself"),
      Str("introduce yourself"), Str("what are guahh"), Str("what is guahh") }
isMetaQuery(query) == \E p \in metaPatterns : Contains(ToLower(query), p)

\* /write|story|essay|article|explain|detail|elaborate/.test(cleanQuery)
longFormWords ==
    { Str("write"), Str("story"), Str("essay"), Str("article"),
      Str("explain"), Str("detail"), Str("elaborate") }
isLongForm(cleanQuery) == \E p \in longFormWords : Contains(cleanQuery, p)

(* ------------------------------------------------------------------ *)
(* Corpus index                                                        *)
(* ------------------------------------------------------------------ *)
\* a load payload is absent (null/undefined) or a sequence of items; an item
\* is a dictionary record or a question/answer record
NoPayload == [null |-> TRUE, items |-> <<>>]
Payload(items) == [null |-> FALSE, items |-> items]
DictItem(word, pos, def) ==
    [type |-> "dict", word |-> Str(word), pos |-> Str(pos), def |-> Str(def)]
QAItem(q, a) == [type |-> "qa", q |-> Str(q), a |-> Str(a)]

\* the memory built by init's forEach: the QA items in payload order
RECURSIVE BuildMemory(_)
BuildMemory(items) ==
    IF items = <<>> THEN <<>>
    ELSE IF Head(items).type = "dict" THEN BuildMemory(Tail(items))
    ELSE <<[q |-> Head(items).q, a |-> Head(items).a,
            tokens |-> tokenize(Head(items).q)]>> \o BuildMemory(Tail(items))

\* a variant in which the first item of a word is kept
RECURSIVE BuildDictionary_FirstWins(_, _)
BuildDictionary_FirstWins(items, d) ==
    IF items = <<>> THEN d
    ELSE IF Head(items).type = "dict" /\ Head(items).word \notin DOMAIN d
         THEN BuildDictionary_FirstWins(Tail(items),
                [w \in DOMAIN d \cup {Head(items).word} |->
                    IF w = Head(items).word THEN Head(items) ELSE d[w]])
         ELSE BuildDictionary_FirstWins(Tail(items), d)
\* the dictionary built by init's forEach: this.dictionary[item.word] = item,
\* a later item overwriting an earlier one with the same word
RECURSIVE BuildDictionary(_, _)
BuildDictionary(items, d) ==
    IF items = <<>> THEN d
    ELSE IF Head(items).type = "dict"
         THEN BuildDictionary(Tail(items),
                [w \in DOMAIN d \cup {Head(items).word} |->
                    IF w = Head(items).word THEN Head(items) ELSE d[w]])
         ELSE BuildDictionary(Tail(items), d)
EmptyDictionary == [w \in {} |-> 0]

\* this.dictionary[key] on a plain object: an own property, else the one
\* lower-case property inherited from Object.prototype, else undefined
ProtoEntry == [type |-> "proto", word |-> Str("undefined"),
               pos |-> Str("undefined"), def |-> Str("undefined")]
DictHas(d, key) == key \in DOMAIN d \/ key = Str("constructor")
DictGet(d, key) == IF key \in DOMAIN d THEN d[key] ELSE ProtoEntry

\* checkDictionaryInquiry(query): the formatted definition, or null
NullText == [null |-> TRUE, text |-> <<>>]
SomeText(t) == [null |-> FALSE, text |-> t]
checkDictionaryInquiry(d, query) ==
    LET clean == Trim(KeepChars(ToLower(query), AlphaWS))
        parts == SplitSpace(clean)
        lastWord == parts[Len(parts)]
    IN  IF DictHas(d, clean) \/ DictHas(d, lastWord)
        THEN LET entry == IF DictHas(d, clean) THEN DictGet(d, clean)
                          ELSE DictGet(d, lastWord)
             IN  SomeText(Str("**") \o entry.word \o Str("** (") \o entry.pos
                          \o Str("): ") \o entry.def)
        ELSE NullText

(* ------------------------------------------------------------------ *)
(* Relevance scorer                                                    *)
(* ------------------------------------------------------------------ *)
\* Scores are kept as exact fractions of fixed-point logarithms: the record
\* [n, u] stands for n / (u * ScoreUnit).  1000 * ln(k) for k = 1..20:
ScoreUnit == 10000
LnMilli == <<0, 693, 1099, 1386, 1609, 1792, 1946, 2079, 2197, 2303,
             2398, 2485, 2565, 2639, 2708, 2773, 2833, 2890, 2944, 2996>>
ScoreOne == [n |-> ScoreUnit, u |-> 1]
\* NaN is the fraction 0/0: every comparison with it is false
ScoreNaN == [n |-> 0, u |-> 0]
\* score > a/b, score < a/b, and the order of two scores
ScoreGT(sc, a, b) == sc.n * b > a * sc.u * ScoreUnit
ScoreLT(sc, a, b) == sc.n * b < a * sc.u * ScoreUnit
ScoreLess(s1, s2) == s1.n * s2.u < s2.n * s1.u

\* df[t]: the number of entries whose tokens contain t
DocFreq(mem, t) == Cardinality({i \in DOMAIN mem : t \in Range(mem[i].tokens)})

\* "df[t] = (df[t] || 0) + 1" on the plain object df: for the term
\* "constructor" df[t] starts as the function inherited from Object.prototype,
\* and the sum is a string, not a count
DocFreqIsCount(t) == t # Str("constructor")
RECURSIVE Gcd(_, _)
Gcd(a, b) == IF b = 0 THEN a ELSE Gcd(b, a % b)
\* Math.log(totalDocs / df): equal quotients have equal logarithms
LogQuotient(totalDocs, df) ==
    LnMilli[totalDocs \div Gcd(totalDocs, df)] - LnMilli[df \div Gcd(totalDocs, df)]

\* the score of one entry: overlap / union * (1 + weightedScore / 10), capped at 1
RECURSIVE WeightedSum(_, _, _)
WeightedSum(mem, entry, qTokens) ==
    IF qTokens = <<>> THEN 0
    ELSE LET t == Head(qTokens)
             df == DocFreq(mem, t)
         IN  (IF t \in Range(entry.tokens)
              THEN LogQuotient(Len(mem), IF df = 0 THEN 1 ELSE df)
              ELSE 0) + WeightedSum(mem, entry, Tail(qTokens))
ScoreEntry(mem, entry, qTokens) ==
    LET overlap == Cardinality({i \in DOMAIN qTokens : qTokens[i] \in Range(entry.tokens)})
        weighted == WeightedSum(mem, entry, qTokens)
        union == Cardinality(Range(entry.tokens) \cup Range(qTokens))
        n == IF union = 0 THEN 0 ELSE overlap * (ScoreUnit + weighted)
        u == IF union = 0 THEN 1 ELSE union
    IN  IF \E i \in DOMAIN qTokens :
              qTokens[i] \in Range(entry.tokens) /\ ~DocFreqIsCount(qTokens[i])
        THEN ScoreNaN
        ELSE IF n >= u * ScoreUnit THEN ScoreOne ELSE [n |-> n, u |-> u]

\* a variant that puts an entry before the earlier entries of the same score
RECURSIVE InsertByScore_Unstable(_, _)
InsertByScore_Unstable(sorted, x) ==
    IF sorted = <<>> THEN <<x>>
    ELSE IF ~ScoreLess(x.score, Head(sorted).score) THEN <<x>> \o sorted
    ELSE <<Head(sorted)>> \o InsertByScore_Unstable(Tail(sorted), x)
\* Array.prototype.sort((a, b) => b.score - a.score): stable, descending
RECURSIVE InsertByScore(_, _)
InsertByScore(sorted, x) ==
    IF sorted = <<>> THEN <<x>>
    ELSE IF ScoreLess(Head(sorted).score, x.score) THEN <<x>> \o sorted
    ELSE <<Head(sorted)>> \o InsertByScore(Tail(sorted), x)
RECURSIVE SortByScore(_, _)
SortByScore(xs, sorted) ==
    IF xs = <<>> THEN sorted ELSE SortByScore(Tail(xs), InsertByScore(sorted, Head(xs)))

RECURSIVE FilterScored(_)
FilterScored(xs) ==
    IF xs = <<>> THEN <<>>
    ELSE IF ScoreGT(Head(xs).score, 5, 100) THEN <<Head(xs)>> \o FilterScored(Tail(xs))
    ELSE FilterScored(Tail(xs))

\* Array.prototype.slice(0, k)
Slice(xs, k) == SubSeq(xs, 1, IF Len(xs) < k THEN Len(xs) ELSE k)

TopK == 15
\* retrieveRelevant(qTokens): the entries scoring above 0.05, best first, at most 15
retrieveRelevant(mem, qTokens) ==
    IF qTokens = <<>> THEN <<>>
    ELSE LET scored == [i \in DOMAIN mem |->
                          [doc |-> mem[i], score |-> ScoreEntry(mem, mem[i], qTokens)]]
         IN  Slice(SortByScore(FilterScored(scored), <<>>), TopK)

(* ------------------------------------------------------------------ *)
(* N-gram model builder                                                *)
(* ------------------------------------------------------------------ *)
\* sourceText.replace(/([.,!?;:])/g, " $1 ")
SpacePunct(s) ==
    Flatten([i \in 1..Len(s) |-> IF s[i] \in Punct THEN <<" ", s[i], " ">> ELSE <<s[i]>>])
\* the word sequence of a context text
ContextWords(sourceText) == SelectSeqLen(SplitWS(SpacePunct(sourceText)), 1)

\* A frequency table is a sequence of [word, count] in key insertion order; a
\* family of tables is a sequence of [key, table] in key insertion order.
TableInc(table, w) ==
    IF \E i \in DOMAIN table : table[i].word = w
    THEN [i \in DOMAIN table |->
            IF table[i].word = w THEN [word |-> w, count |-> table[i].count + 1]
            ELSE table[i]]
    ELSE Append(table, [word |-> w, count |-> 1])
FamilyHas(fam, key) == \E i \in DOMAIN fam : fam[i].key = key
FamilyGet(fam, key) == fam[CHOOSE i \in DOMAIN fam : fam[i].key = key].table
FamilyInc(fam, key, w) ==
    IF FamilyHas(fam, key)
    THEN [i \in DOMAIN fam |->
            IF fam[i].key = key THEN [key |-> key, table |-> TableInc(fam[i].table, w)]
            ELSE fam[i]]
    ELSE Append(fam, [key |-> key, table |-> TableInc(<<>>, w)])

\* the loop "for (i = 0; i < words.length - 2; i++)", i counted from 1 here
RECURSIVE BuildModel(_, _, _)
BuildModel(words, i, m) ==
    IF i > Len(words) - 2 THEN m
    ELSE BuildModel(words, i + 1,
           [bigrams  |-> FamilyInc(m.bigrams, words[i], words[i + 1]),
            trigrams |-> FamilyInc(m.trigrams, <<words[i], words[i + 1]>>, words[i + 2]),
            starters |-> IF i = 1 \/ Contains(Str(".!?"), words[i - 1])
                         THEN Append(m.starters, words[i]) ELSE m.starters])
\* words[0] of an empty array is undefined, which join() renders as ""
FirstWord(words) == IF words = <<>> THEN <<>> ELSE words[1]
\* "const bigrams = {}" inherits "constructor" from Object.prototype: for
\* w1 = "constructor" the test "!bigrams[w1]" finds the function Object, and
\* "bigrams[w1][w2] = ..." counts w2 in an own property of that function,
\* which outlives the call.  objectTable is the table of these properties
\* (for successors that are not built-in properties of Object) before the
\* call; ObjectTable(m) is the table after the model has been built.
NGramModelOn(objectTable, words) ==
    LET m == BuildModel(words, 1,
                 [bigrams  |-> IF objectTable = <<>> THEN <<>>
                               ELSE <<[key |-> Str("constructor"), table |-> objectTable]>>,
                  trigrams |-> <<>>, starters |-> <<>>])
    IN  IF m.starters = <<>> THEN [m EXCEPT !.starters = <<FirstWord(words)>>] ELSE m
ObjectTable(m) ==
    IF FamilyHas(m.bigrams, Str("constructor"))
    THEN FamilyGet(m.bigrams, Str("constructor")) ELSE <<>>
\* the model of a call before which no such property exists
NGramModel(words) == NGramModelOn(<<>>, words)

(* ------------------------------------------------------------------ *)
(* Sampler                                                             *)
(* ------------------------------------------------------------------ *)
\* temperature 0.8 and topP 0.9: a count c weighs c^(1/0.8) = c^1.25, here
\* 1000 * c^1.25 for c = 1..10; dividing by total^1.25 and by probSum does
\* not change the order or the cumulative shares
Pow125Milli == <<1000, 2378, 3948, 5657, 7477, 9391, 11386, 13454, 15588, 17783>>
TopPNum == 9
TopPDen == 10

\* probs.sort((a, b) => b.prob - a.prob): stable, descending
RECURSIVE InsertByCount(_, _)
InsertByCount(sorted, x) ==
    IF sorted = <<>> THEN <<x>>
    ELSE IF Head(sorted).count < x.count THEN <<x>> \o sorted
    ELSE <<Head(sorted)>> \o InsertByCount(Tail(sorted), x)
RECURSIVE SortByCount(_, _)
SortByCount(xs, sorted) ==
    IF xs = <<>> THEN sorted ELSE SortByCount(Tail(xs), InsertByCount(sorted, Head(xs)))

RECURSIVE SumWeights(_)
SumWeights(xs) == IF xs = <<>> THEN 0 ELSE Pow125Milli[Head(xs).count] + SumWeights(Tail(xs))

\* topP as a fraction; the engine's setting
Fraction(num, den) == [num |-> num, den |-> den]
EngineTopP == Fraction(TopPNum, TopPDen)

\* a variant that leaves out the candidate with which the share reaches topP
RECURSIVE NucleusRec_Exclusive(_, _, _, _, _)
NucleusRec_Exclusive(probs, topP, cum, total, acc) ==
    IF probs = <<>> THEN acc
    ELSE LET cum2 == cum + Pow125Milli[Head(probs).count]
         IN  IF cum2 * topP.den >= topP.num * total THEN acc
             ELSE NucleusRec_Exclusive(Tail(probs), topP, cum2, total, Append(acc, Head(probs)))
\* the nucleus: candidates are pushed until the cumulative share reaches topP
RECURSIVE NucleusRec(_, _, _, _, _)
NucleusRec(probs, topP, cum, total, acc) ==
    IF probs = <<>> THEN acc
    ELSE LET cum2 == cum + Pow125Milli[Head(probs).count]
         IN  IF cum2 * topP.den >= topP.num * total THEN Append(acc, Head(probs))
             ELSE NucleusRec(Tail(probs), topP, cum2, total, Append(acc, Head(probs)))
Nucleus(candidateFreq, topP) ==
    LET probs == SortByCount(candidateFreq, <<>>)
    IN  NucleusRec(probs, topP, 0, SumWeights(probs), <<>>)

\* sampleWithTemperature(candidateFreq, temperature, topP) at the engine's
\* temperature: the words a random draw can return (each member of the
\* nucleus); the empty set stands for null
sampleWithTemperature(candidateFreq, topP) ==
    IF candidateFreq = <<>> THEN {}
    ELSE {Nucleus(candidateFreq, topP)[i].word : i \in DOMAIN Nucleus(candidateFreq, topP)}

(* ------------------------------------------------------------------ *)
(* Generator: one attempt, detokenization, validation                  *)
(* ------------------------------------------------------------------ *)
\* the candidate pool of one step: the trigram table if prevWord is set and
\* the key exists, else the bigram table, else nothing
CandidatePool(m, prevWord, currentWord) ==
    IF prevWord # <<>> /\ FamilyHas(m.trigrams, <<prevWord, currentWord>>)
    THEN FamilyGet(m.trigrams, <<prevWord, currentWord>>)
    ELSE IF FamilyHas(m.bigrams, currentWord) THEN FamilyGet(m.bigrams, currentWord)
    ELSE <<>>

\* a variant that stops at a sentence end from the sixteenth word on
RECURSIVE GenerateFrom_StopsAtSixteen(_, _, _, _, _, _)
GenerateFrom_StopsAtSixteen(m, prevWord, currentWord, output, i, targetLength) ==
    IF i >= targetLength THEN {output}
    ELSE LET pool == CandidatePool(m, prevWord, currentWord)
         IN  IF pool = <<>> THEN {output}
             ELSE UNION { IF i > 13 /\ Contains(Str(".!?"), next)
                          THEN {Append(output, next)}
                          ELSE GenerateFrom_StopsAtSixteen(m, currentWord, next,
                                   Append(output, next), i + 1, targetLength)
                          : next \in sampleWithTemperature(pool, EngineTopP) }
\* the generation loop from step i on: every output it can end with
RECURSIVE GenerateFrom(_, _, _, _, _, _)
GenerateFrom(m, prevWord, currentWord, output, i, targetLength) ==
    IF i >= targetLength THEN {output}
    ELSE LET pool == CandidatePool(m, prevWord, currentWord)
         IN  IF pool = <<>> THEN {output}
             ELSE UNION { IF i > 15 /\ Contains(Str(".!?"), next)
                          THEN {Append(output, next)}
                          ELSE GenerateFrom(m, currentWord, next, Append(output, next),
                                            i + 1, targetLength)
                          : next \in sampleWithTemperature(pool, EngineTopP) }

\* output.join(" ").replace(/\s+([.,!?;:])/g, "$1")
\* a whitespace character is dropped when the run it belongs to ends at a
\* punctuation mark
FixPunct(s) ==
    Flatten([i \in 1..Len(s) |->
        IF s[i] \in WS /\ NextNonWS(s, i) <= Len(s) /\ s[NextNonWS(s, i)] \in Punct
        THEN <<>> ELSE <<s[i]>>])
\* .replace(/^([a-z])/g, c => c.toUpperCase())
Capitalize(s) == IF s = <<>> THEN s ELSE <<ToUpperChar(Head(s))>> \o Tail(s)
Detokenize(output) == Capitalize(FixPunct(Join(output, <<" ">>)))

\* the outputs one attempt of generateNeuralText can produce (a random
\* starter, then the loop), and their texts
AttemptOutputsOn(objectTable, sourceText, targetLength) ==
    LET words == ContextWords(sourceText)
        m == NGramModelOn(objectTable, words)
    IN  UNION { GenerateFrom(m, <<>>, m.starters[k], <<m.starters[k]>>,
                             0, targetLength) : k \in DOMAIN m.starters }
AttemptOutputs(sourceText, targetLength) == AttemptOutputsOn(<<>>, sourceText, targetLength)
AttemptTexts(sourceText, targetLength) ==
    { Detokenize(out) : out \in AttemptOutputs(sourceText, targetLength) }

\* computeSimilarity(text1, text2): Jaccard index of the word sets, as the
\* pair <<|intersection|, |union|>>
computeSimilarity(text1, text2) ==
    LET s1 == Range(SplitWS(ToLower(text1)))
        s2 == Range(SplitWS(ToLower(text2)))
    IN  <<Cardinality(s1 \cap s2), Cardinality(s1 \cup s2)>>

MinTextLen == 10
\* validateOutput(text): length >= 10, unique ratio >= 0.3, similarity to
\* every recent output <= 0.7
validateOutput(text, recent) ==
    LET words == SplitWS(ToLower(text))
    IN  /\ ~(Len(text) < MinTextLen)
        /\ ~(10 * Cardinality(Range(words)) < 3 * Len(words))
        /\ ~\E i \in DOMAIN recent :
              LET sim == computeSimilarity(text, recent[i])
              IN  sim[2] # 0 /\ 10 * sim[1] > 7 * sim[2]

(* ------------------------------------------------------------------ *)
(* Bounded collections                                                 *)
(* ------------------------------------------------------------------ *)
\* A Map is a sequence of [key, value] in insertion order.
MapHas(m, key) == \E i \in DOMAIN m : m[i].key = key
MapGet(m, key) == m[CHOOSE i \in DOMAIN m : m[i].key = key].value
\* Map.prototype.set: a new key goes last, an existing key keeps its place
MapSet(m, key, value) ==
    IF MapHas(m, key)
    THEN [i \in DOMAIN m |-> IF m[i].key = key THEN [key |-> key, value |-> value] ELSE m[i]]
    ELSE Append(m, [key |-> key, value |-> value])
MapKeys(m) == [i \in DOMAIN m |-> m[i].key]

ResponseCacheCap == 100
WikiCacheCap == 50
HistoryCap == 10
RecentCap == 5

\* "if (map.size > cap) map.delete(map.keys().next().value)"
EvictOldest(m, cap) == IF Len(m) > cap THEN Tail(m) ELSE m
\* a variant that drops the newest element on overflow
PushBounded_DropNewest(arr, x, cap) == IF Len(arr) + 1 > cap THEN arr ELSE Append(arr, x)
\* "arr.push(x); if (arr.length > cap) arr.shift()"
PushBounded(arr, x, cap) == IF Len(arr) + 1 > cap THEN Tail(Append(arr, x)) ELSE Append(arr, x)

\* the response cache after the write of the external-knowledge branch
CacheWikiResult(cache, key, result) == MapSet(cache, key, result)
\* a variant of the local branch that does not cache its result
CacheLocalResult_NoWrite(cache, key, result) == cache
\* the response cache after the write that ends the local branch
CacheLocalResult(cache, key, result) == EvictOldest(MapSet(cache, key, result), ResponseCacheCap)
\* the wiki cache after a successful lookup
CacheSummary(cache, query, summary) == EvictOldest(MapSet(cache, query, summary), WikiCacheCap)

\* addToHistory(query, response); the timestamp of a record is never read
\* and is left out
HistoryAdd(history, query, response) ==
    PushBounded(history, [query |-> query, response |-> response], HistoryCap)
RecentAdd(recent, response) == PushBounded(recent, response, RecentCap)

(* ------------------------------------------------------------------ *)
(* External knowledge lookup                                           *)
(* ------------------------------------------------------------------ *)
questionPrefixes ==
    { Str("what is"), Str("who is"), Str("tell me about"), Str("define"),
      Str("search for"), Str("meaning of") }
\* query.replace(/^(what is|who is|tell me about|define|search for|meaning of)\s+/i, '')
StripQuestionPrefix(query) ==
    IF \E p \in questionPrefixes :
          /\ HasPrefix(ToLower(query), p)
          /\ Len(query) > Len(p) /\ query[Len(p) + 1] \in WS
    THEN LET p == CHOOSE p \in questionPrefixes :
                    /\ HasPrefix(ToLower(query), p)
                    /\ Len(query) > Len(p) /\ query[Len(p) + 1] \in WS
         IN  TrimLeft(SubSeq(query, Len(p) + 1, Len(query)))
    ELSE query

\* extract.split('. ')
RECURSIVE SplitSentencesFrom(_, _)
SplitSentencesFrom(s, i) ==
    IF \E j \in i..(Len(s) - 1) : s[j] = "." /\ s[j + 1] = " "
    THEN LET e == CHOOSE j \in i..(Len(s) - 1) :
                    /\ s[j] = "." /\ s[j + 1] = " "
                    /\ \A k \in i..(j - 1) : ~(s[k] = "." /\ s[k + 1] = " ")
         IN  <<SubSeq(s, i, e - 1)>> \o SplitSentencesFrom(s, e + 2)
    ELSE <<SubSeq(s, i, Len(s))>>
\* sentences.slice(0, 3).join('. ') + '.'
Summary(extract) == Join(Slice(SplitSentencesFrom(extract, 1), 3), <<".", " ">>) \o <<".">>

\* a variant that takes a disambiguation page for an article
LookupResult_Disambiguation(outcome) ==
    IF outcome.kind # "page" THEN NullText
    ELSE IF outcome.extract = <<>> THEN NullText
    ELSE SomeText(Summary(outcome.extract))
\* what the lookup yields for one response of the service: null on a network
\* or parse error, a missing page, an empty extract or a disambiguation page
LookupResult(outcome) ==
    IF outcome.kind # "page" THEN NullText
    ELSE IF outcome.extract = <<>> \/ Contains(outcome.extract, Str("refer to:")) THEN NullText
    ELSE SomeText(Summary(outcome.extract))

(* ------------------------------------------------------------------ *)
(* Results and the branch decisions of the answer pipeline             *)
(* ------------------------------------------------------------------ *)
\* a source is a provenance tag or the numeric score of a contributing entry
Tag(t) == [tag |-> t, n |-> 0, u |-> 1]
ScoreSource(sc) == [tag |-> "score", n |-> sc.n, u |-> sc.u]
Result(text, sources) == [text |-> text, sources |-> sources]

NotReadyResult == Result(Str("Neural core not initialized."), <<>>)
NoMatchResult ==
    Result(Str("I don't have that information yet. Try rephrasing or asking about a different topic."), <<>>)
LowConfidenceResult ==
    Result(Str("I found some data, but it doesn't seem relevant enough to answer confidently. Can you be more specific?"), <<>>)
IdentityText ==
    Str("I am Guahh AI V6, an advanced locally-running neural system. I use temperature sampling, nucleus sampling, and sophisticated retrieval to answer questions, generate creative text, search Wikipedia, and maintain natural conversations.")

\* a variant whose key keeps the surrounding whitespace
CacheKey_Untrimmed(query) == ToLower(query)
\* const cacheKey = query.toLowerCase().trim()
CacheKey(query) == Trim(ToLower(query))

\* a variant that checks the dictionary intent before the meta intent
SyncBranch_DictFirst(ready, cache, dict, query) ==
    IF ~ready THEN "notready"
    ELSE IF MapHas(cache, CacheKey(query)) THEN "cache"
    ELSE IF ~checkDictionaryInquiry(dict, query).null THEN "dict"
    ELSE IF isMetaQuery(query) THEN "meta"
    ELSE "lookup"

\* the order of the checks before the external lookup: not ready, cache hit,
\* meta intent, dictionary intent, else the lookup
SyncBranch(ready, cache, dict, query) ==
    IF ~ready THEN "notready"
    ELSE IF MapHas(cache, CacheKey(query)) THEN "cache"
    ELSE IF isMetaQuery(query) THEN "meta"
    ELSE IF ~checkDictionaryInquiry(dict, query).null THEN "dict"
    ELSE "lookup"

\* the meta branch: the top entry's answer if it scores above 0.5, else the
\* fixed identity statement
MetaResult(mem, query) ==
    LET docs == retrieveRelevant(mem, tokenize(preprocessQuery(query)))
    IN  IF docs # <<>> /\ ScoreGT(docs[1].score, 5, 10)
        THEN Result(docs[1].doc.a, <<Tag("Local Memory")>>)
        ELSE Result(IdentityText, <<Tag("Core Identity")>>)

\* a variant whose generator starts at a score of 0.15
LocalBranch_ClosedSwitch(docs, longForm) ==
    IF docs = <<>> \/ ScoreLT(docs[1].score, 1, 10) THEN "nomatch"
    ELSE IF ScoreGT(docs[1].score, 85, 100) /\ ~longForm THEN "verbatim"
    ELSE IF ~ScoreLT(docs[1].score, 15, 100) \/ longForm THEN "generate"
    ELSE "lowconf"
\* the thresholds of the local fallback
LocalBranch(docs, longForm) ==
    IF docs = <<>> \/ ScoreLT(docs[1].score, 1, 10) THEN "nomatch"
    ELSE IF ScoreGT(docs[1].score, 85, 100) /\ ~longForm THEN "verbatim"
    ELSE IF ScoreGT(docs[1].score, 15, 100) \/ longForm THEN "generate"
    ELSE "lowconf"

LongFormLen == 150
StandardLen == 50
LongFormContext == 15
StandardContext == 7
MinGeneratedLen == 20

\* what the local fallback works with: the ranked entries, the long-form
\* flag, the target length and the context text of the generator
LocalContext(mem, query) ==
    LET cleanQuery == preprocessQuery(query)
        docs == retrieveRelevant(mem, tokenize(cleanQuery))
        lf == isLongForm(cleanQuery)
        valid == Slice(docs, IF lf THEN LongFormContext ELSE StandardContext)
    IN  [docs |-> docs, longForm |-> lf,
         maxLen |-> IF lf THEN LongFormLen ELSE StandardLen,
         contextText |-> Join([i \in DOMAIN valid |-> valid[i].doc.a], <<" ">>)]

\* sources: relevantDocs.slice(0, 3).map(d => d.score)
LocalSources(docs) == [i \in DOMAIN Slice(docs, 3) |-> ScoreSource(docs[i].score)]

\* "if (outputText.length < 20) outputText = relevantDocs[0].doc.a"
QualityControl(outputText, docs) ==
    IF Len(outputText) < MinGeneratedLen THEN docs[1].doc.a ELSE outputText

(* ------------------------------------------------------------------ *)
(* Bounds, inputs and the environment                                  *)
(* ------------------------------------------------------------------ *)
\* the number of init and answer calls of a run
MaxOps == 3
MaxThresholdOps == 3
MaxSends == 2
\* the number of distinct numeral queries of the cache scenario
MaxFresh == 102
\* the recursion depth of generateNeuralText at which the call stack is
\* exhausted and a RangeError is thrown
StackLimit == 3

MainPayload ==
    Payload(<< QAItem("what is rust", "Rust is a systems programming language focused on safety."),
               QAItem("what is your name", "I am Guahh, your local assistant."),
               DictItem("banana", "noun", "a fruit"),
               DictItem("name", "noun", "a word for a thing"),
               DictItem("banana", "noun", "a yellow fruit") >>)
Payloads == {NoPayload, Payload(<<>>), MainPayload}
Queries ==
    { Str("your name"), Str("banana"), Str("what is rust"),
      Str("rust language"), Str("language rust"),
      Str("What is Rust "), Str("alpha"), Str("A banana?") }

\* a corpus of one entry with 20 tokens, which puts scores on the thresholds
NatoQuestion ==
    "alpha bravo charlie delta echo foxtrot golf hotel india juliet kilo lima mike november oscar papa quebec romeo sierra tango"
NatoPayload ==
    Payload(<< QAItem(NatoQuestion, "The phonetic alphabet spells words letter by letter.") >>)
ThresholdPayloads == {NatoPayload}
ThresholdQueries ==
    { Str("alpha"), Str("alpha bravo"), Str("alpha bravo zulu"),
      Str("alpha bravo charlie"), Str("alpha bravo charlie delta"),
      Str("explain alpha bravo charlie"), Str("explain alpha bravo"),
      Str("alpha bravo charlie delta echo foxtrot golf hotel india juliet kilo lima mike november oscar papa quebec"),
      Str(NatoQuestion), Str("explain " \o NatoQuestion) }

\* the articles of the external service, by lower-case title
Articles ==
    { [title |-> Str("rust"),
       extract |-> Str("Rust is a language. It is fast. It is safe. It is new.")],
      [title |-> Str("banana"), extract |-> Str("A banana is a fruit.")],
      [title |-> Str("language rust"), extract |-> Str("Language rust may refer to: a language")],
      [title |-> Str("alpha"), extract |-> Str("")] }

\* the cache scenario asks the numerals "0", "1", ... one after the other;
\* the corpus answers two of them, the service has a page for each
RECURSIVE NumQuery(_)
NumQuery(n) ==
    IF n < 10 THEN <<DigitChars[n + 1]>>
    ELSE NumQuery(n \div 10) \o <<DigitChars[(n % 10) + 1]>>
Numerals == {NumQuery(n) : n \in 0..MaxFresh}
CachePayload ==
    Payload(<< QAItem("100", "One hundred is a round number indeed."),
               QAItem("101 extra", "The next number follows one hundred.") >>)
\* in the cache scenario the service is down only after it has answered the
\* first ResponseCacheCap numerals
ServiceUp(query) == \E n \in 0..(ResponseCacheCap - 1) : NumQuery(n) = query

\* the responses the service can give to a query: a network error, else the
\* page of the searched title or the missing-page marker
FetchOutcomes(query) ==
    LET title == Trim(ToLower(StripQuestionPrefix(query)))
        pages == {a \in Articles : a.title = title}
    IN  IF query \in Numerals
        THEN {[kind |-> "page", extract |-> query \o Str(" is a number")]}
             \cup (IF ServiceUp(query) THEN {} ELSE {[kind |-> "error", extract |-> <<>>]})
        ELSE {[kind |-> "error", extract |-> <<>>]}
             \cup (IF pages = {} THEN {[kind |-> "missing", extract |-> <<>>]}
                   ELSE {[kind |-> "page", extract |-> a.extract] : a \in pages})

(* ------------------------------------------------------------------ *)
(* State                                                               *)
(* ------------------------------------------------------------------ *)
VARIABLES
    isReady, memory, dictionary,       \* the corpus index
    responseCache, wikiCache,          \* SessionCache and KnowledgeCache
    recentOutputs, conversationHistory,
    calls,        \* the generateResponse / searchWikipedia calls in flight, by id
    log,          \* the last completed calls (observation only)
    initLog,      \* the last init call (observation only)
    ghost,        \* everything ever appended or inserted and the items of
                  \* the last payload loaded (observation only)
    inputValue, btnDisabled, sends,   \* the chat controller
    ops,          \* the number of calls made by the direct caller
    fresh,        \* the next unused numeral query of the cache scenario
    probe         \* the last application of one of the engine's pure functions

engineVars == <<isReady, memory, dictionary, responseCache, wikiCache,
                recentOutputs, conversationHistory>>
callVars == <<calls, log, ghost>>
uiVars == <<inputValue, btnDisabled, sends>>
vars == <<engineVars, callVars, initLog, uiVars, ops, fresh, probe>>

Snapshot == [isReady |-> isReady, dictionary |-> dictionary,
             responseCache |-> responseCache,
             wikiCache |-> wikiCache, recentOutputs |-> recentOutputs,
             conversationHistory |-> conversationHistory]
NoTop == [has |-> FALSE, score |-> ScoreOne]
TopOf(docs) == IF docs = <<>> THEN NoTop ELSE [has |-> TRUE, score |-> docs[1].score]
Last(l) == l[Len(l)]
\* the log keeps the previous completed call and the new one
LogPush(l, e) == IF l = <<>> THEN <<e>> ELSE <<Last(l), e>>

\* a call is in flight from its invocation until it returns or throws
InFlight == DOMAIN calls
\* the id given to the next call
FreeId == CHOOSE id \in 1..(Cardinality(DOMAIN calls) + 1) : id \notin DOMAIN calls
\* the observation of an append to the history, of an insertion of a new key
\* into the response cache and into the wiki cache
GhostHistory(g, query, response) ==
    [g EXCEPT !.history = Append(@, [query |-> query, response |-> response])]
GhostResponseKey(g, cache, key) ==
    IF MapHas(cache, key) THEN g ELSE [g EXCEPT !.responseKeys = Append(@, key)]
GhostWikiKey(g, cache, key) ==
    IF MapHas(cache, key) THEN g ELSE [g EXCEPT !.wikiKeys = Append(@, key)]
\* generateNeuralText is running (synchronously): nothing else can run
InGenerator == \E id \in DOMAIN calls : calls[id].pc = "gen"
\* a sendMessage whose awaited call has settled resumes before any other task
PendingResume == \E s \in DOMAIN sends : sends[s].pc = "await" /\ sends[s].call \notin DOMAIN calls

Init ==
    /\ isReady = FALSE /\ memory = <<>> /\ dictionary = EmptyDictionary
    /\ responseCache = <<>> /\ wikiCache = <<>>
    /\ recentOutputs = <<>> /\ conversationHistory = <<>>
    /\ calls = [id \in {} |-> 0] /\ log = <<>>
    /\ ghost = [history |-> <<>>, responseKeys |-> <<>>, wikiKeys |-> <<>>,
                loaded |-> <<>>]
    /\ initLog = [count |-> 0, null |-> FALSE, empty |-> FALSE, ret |-> FALSE,
                  readyBefore |-> FALSE]
    /\ inputValue = <<>> /\ btnDisabled = FALSE /\ sends = <<>>
    /\ ops = 0 /\ fresh = 0
    /\ probe = [fn |-> "none"]

(* ------------------------------------------------------------------ *)
(* The engine's operations                                             *)
(* ------------------------------------------------------------------ *)
\* the record kept of a completed call
Entry(id, rec, outcome, result, state, lookup, attempts, top, lf) ==
    [id |-> id, kind |-> rec.kind, query |-> rec.query, outcome |-> outcome,
     result |-> result, state |-> state, lookup |-> lookup,
     attempts |-> attempts, pre |-> rec.pre, top |-> top, longForm |-> lf,
     epoch |-> rec.epoch]
NewCall(kind, query, pc, hit) ==
    [kind |-> kind, query |-> query, pc |-> pc, attempts |-> 0, wikiHit |-> hit,
     pre |-> Snapshot, epoch |-> initLog.count]
Drop(id) == [i \in DOMAIN calls \ {id} |-> calls[i]]

\* a variant that is ready only after a payload with entries
init_EmptyNotReady(data) ==
    /\ ~InGenerator /\ ~PendingResume
    /\ IF data.null
       THEN UNCHANGED <<isReady, memory, dictionary>>
       ELSE /\ memory' = BuildMemory(data.items)
            /\ dictionary' = BuildDictionary(data.items, EmptyDictionary)
            /\ isReady' = (data.items # <<>>)
    /\ initLog' = [count |-> initLog.count + 1, null |-> data.null,
                   empty |-> (data.items = <<>>), ret |-> ~data.null,
                   readyBefore |-> isReady]
    /\ ghost' = IF data.null THEN ghost ELSE [ghost EXCEPT !.loaded = data.items]
    /\ UNCHANGED <<responseCache, wikiCache, recentOutputs, conversationHistory, calls, log>>
\* a variant that starts with an empty response cache after a payload
init_ClearsCache(data) ==
    /\ ~InGenerator /\ ~PendingResume
    /\ IF data.null
       THEN UNCHANGED <<isReady, memory, dictionary, responseCache>>
       ELSE /\ memory' = BuildMemory(data.items)
            /\ dictionary' = BuildDictionary(data.items, EmptyDictionary)
            /\ isReady' = TRUE
            /\ responseCache' = <<>>
    /\ initLog' = [count |-> initLog.count + 1, null |-> data.null,
                   empty |-> (data.items = <<>>), ret |-> ~data.null,
                   readyBefore |-> isReady]
    /\ ghost' = IF data.null THEN ghost ELSE [ghost EXCEPT !.loaded = data.items]
    /\ UNCHANGED <<wikiCache, recentOutputs, conversationHistory, calls, log>>
\* init(data, logCallback): false for an absent payload, else the index is
\* rebuilt from the payload and the engine is ready
init(data) ==
    /\ ~InGenerator /\ ~PendingResume
    /\ IF data.null
       THEN UNCHANGED <<isReady, memory, dictionary>>
       ELSE /\ memory' = BuildMemory(data.items)
            /\ dictionary' = BuildDictionary(data.items, EmptyDictionary)
            /\ isReady' = TRUE
    /\ initLog' = [count |-> initLog.count + 1, null |-> data.null,
                   empty |-> (data.items = <<>>), ret |-> ~data.null,
                   readyBefore |-> isReady]
    /\ ghost' = IF data.null THEN ghost ELSE [ghost EXCEPT !.loaded = data.items]
    /\ UNCHANGED <<responseCache, wikiCache, recentOutputs, conversationHistory, calls, log>>

\* the start of searchWikipedia(query): a wiki-cache hit is read at once
WikiHit(query) ==
    IF MapHas(wikiCache, query) THEN SomeText(MapGet(wikiCache, query)) ELSE NullText

\* generateResponse(query) up to its first suspension: the not-ready guard,
\* the cache check, the meta and dictionary intents, else the lookup starts
generateResponse(query) ==
    LET id == FreeId
        rec == NewCall("answer", query, "lookup", WikiHit(query))
        branch == SyncBranch(isReady, responseCache, dictionary, query)
        Returns(result, state) ==
            /\ log' = LogPush(log, Entry(id, rec, "returned", result, state, "none", 0, NoTop, FALSE))
            /\ calls' = calls
        Answers(result, state) ==
            /\ conversationHistory' = HistoryAdd(conversationHistory, query, result.text)
            /\ recentOutputs' = RecentAdd(recentOutputs, result.text)
            /\ ghost' = GhostHistory(ghost, query, result.text)
            /\ Returns(result, state)
            /\ UNCHANGED <<isReady, memory, dictionary, responseCache, wikiCache>>
    IN  /\ ~InGenerator /\ ~PendingResume
        /\ CASE branch = "notready" ->
                  Returns(NotReadyResult, "notready") /\ UNCHANGED <<engineVars, ghost>>
             [] branch = "cache" ->
                  /\ Returns(MapGet(responseCache, CacheKey(query)), "cache")
                  /\ UNCHANGED <<engineVars, ghost>>
             [] branch = "meta" -> Answers(MetaResult(memory, query), "meta")
             [] branch = "dict" ->
                  Answers(Result(checkDictionaryInquiry(dictionary, query).text,
                                 <<Tag("Dictionary")>>), "dict")
             [] branch = "lookup" ->
                  /\ calls' = [i \in DOMAIN calls \cup {id} |-> IF i = id THEN rec ELSE calls[i]]
                  /\ log' = log
                  /\ UNCHANGED <<engineVars, ghost>>

\* a direct call of searchWikipedia(query)
searchWikipedia(query) ==
    LET id == FreeId
        rec == NewCall("lookup", query, "lookup", WikiHit(query))
    IN  /\ ~InGenerator /\ ~PendingResume
        /\ calls' = [i \in DOMAIN calls \cup {id} |-> IF i = id THEN rec ELSE calls[i]]
        /\ log' = log
        /\ UNCHANGED <<engineVars, ghost>>

\* the end of the local branch: history, recent outputs and the response
\* cache are written and the result is returned
FinishLocal(id, outputText, state, attempts) ==
    LET rec == calls[id]
        ctx == LocalContext(memory, rec.query)
        result == Result(outputText, LocalSources(ctx.docs))
    IN  /\ conversationHistory' = HistoryAdd(conversationHistory, rec.query, result.text)
        /\ recentOutputs' = RecentAdd(recentOutputs, result.text)
        /\ responseCache' = CacheLocalResult(responseCache, CacheKey(rec.query), result)
        /\ ghost' = GhostResponseKey(GhostHistory(ghost, rec.query, result.text),
                                     responseCache, CacheKey(rec.query))
        /\ log' = LogPush(log, Entry(id, rec, "returned", result, state, "absent",
                                     attempts, TopOf(ctx.docs), ctx.longForm))
        /\ calls' = Drop(id)

\* a variant that records the fixed message in the history
ReturnFixed_Recorded(id, result, state) ==
    LET rec == calls[id]
        ctx == LocalContext(memory, rec.query)
    IN  /\ log' = LogPush(log, Entry(id, rec, "returned", result, state, "absent", 0,
                                     TopOf(ctx.docs), ctx.longForm))
        /\ calls' = Drop(id)
        /\ conversationHistory' = HistoryAdd(conversationHistory, rec.query, result.text)
        /\ recentOutputs' = RecentAdd(recentOutputs, result.text)
        /\ ghost' = GhostHistory(ghost, rec.query, result.text)
        /\ UNCHANGED responseCache
\* the returns of the local branch with a fixed message ("insufficient
\* information", "not confident"): nothing is written
ReturnFixed(id, result, state) ==
    LET rec == calls[id]
        ctx == LocalContext(memory, rec.query)
    IN  /\ log' = LogPush(log, Entry(id, rec, "returned", result, state, "absent", 0,
                                     TopOf(ctx.docs), ctx.longForm))
        /\ calls' = Drop(id)
        /\ UNCHANGED <<responseCache, recentOutputs, conversationHistory, ghost>>

\* the lookup settles: searchWikipedia returns the cached summary, or the
\* summary of the fetched page (which it caches), or null; generateResponse
\* resumes with it and runs to its end or into the generator
LookupReturns(id) ==
    /\ id \in DOMAIN calls /\ calls[id].pc = "lookup"
    /\ ~InGenerator /\ ~PendingResume
    /\ LET rec == calls[id]
           hit == ~rec.wikiHit.null
       IN  \E outcome \in (IF hit THEN {[kind |-> "cached", extract |-> <<>>]}
                           ELSE FetchOutcomes(rec.query)) :
             LET wikiResult == IF hit THEN rec.wikiHit ELSE LookupResult(outcome)
                 lookup == IF hit THEN "cached" ELSE IF wikiResult.null THEN "absent" ELSE "ok"
                 ctx == LocalContext(memory, rec.query)
                 branch == LocalBranch(ctx.docs, ctx.longForm)
                 Returns(result, state) ==
                     /\ log' = LogPush(log, Entry(id, rec, "returned", result, state, lookup, 0,
                                                  NoTop, FALSE))
                     /\ calls' = Drop(id)
                 g == IF ~hit /\ ~wikiResult.null
                      THEN GhostWikiKey(ghost, wikiCache, rec.query) ELSE ghost
             IN  /\ wikiCache' = IF ~hit /\ ~wikiResult.null
                                 THEN CacheSummary(wikiCache, rec.query, wikiResult.text)
                                 ELSE wikiCache
                 /\ UNCHANGED <<isReady, memory, dictionary>>
                 /\ IF rec.kind = "lookup"
                    THEN /\ Returns(Result(wikiResult.text, <<>>),
                                    IF wikiResult.null THEN "lookupAbsent" ELSE "lookupOk")
                         /\ ghost' = g
                         /\ UNCHANGED <<responseCache, recentOutputs, conversationHistory>>
                    ELSE IF ~wikiResult.null
                    THEN LET result == Result(wikiResult.text, <<Tag("Wikipedia")>>)
                         IN  /\ conversationHistory' =
                                    HistoryAdd(conversationHistory, rec.query, result.text)
                             /\ recentOutputs' = RecentAdd(recentOutputs, result.text)
                             /\ responseCache' =
                                    CacheWikiResult(responseCache, CacheKey(rec.query), result)
                             /\ ghost' = GhostResponseKey(GhostHistory(g, rec.query, result.text),
                                                          responseCache, CacheKey(rec.query))
                             /\ Returns(result, "wiki")
                    ELSE CASE branch = "nomatch" -> ReturnFixed(id, NoMatchResult, "nomatch")
                           [] branch = "lowconf" -> ReturnFixed(id, LowConfidenceResult, "lowconf")
                           [] branch = "verbatim" ->
                                FinishLocal(id, ctx.docs[1].doc.a, "verbatim", 0)
                           [] branch = "generate" ->
                                /\ calls' = [calls EXCEPT ![id].pc = "gen"]
                                /\ log' = log
                                /\ UNCHANGED <<responseCache, recentOutputs, conversationHistory, ghost>>

\* one invocation of generateNeuralText(sourceText, targetLength): a text is
\* generated; if the validator accepts it, it is returned and generateResponse
\* finishes; if not, the function calls itself again, and the call stack is
\* exhausted (RangeError) at depth StackLimit
generateNeuralText(id) ==
    /\ id \in DOMAIN calls /\ calls[id].pc = "gen"
    /\ LET rec == calls[id]
           ctx == LocalContext(memory, rec.query)
       IN  \E text \in AttemptTexts(ctx.contextText, ctx.maxLen) :
             IF validateOutput(text, recentOutputs)
             THEN /\ FinishLocal(id, QualityControl(text, ctx.docs),
                                 IF Len(text) < MinGeneratedLen THEN "fallback" ELSE "generated",
                                 rec.attempts + 1)
                  /\ UNCHANGED <<isReady, memory, dictionary, wikiCache>>
             ELSE IF rec.attempts + 1 >= StackLimit
             THEN /\ log' = LogPush(log, Entry(id, rec, "threw", Result(<<>>, <<>>), "error",
                                               "absent", rec.attempts + 1, TopOf(ctx.docs),
                                               ctx.longForm))
                  /\ calls' = Drop(id)
                  /\ UNCHANGED <<engineVars, ghost>>
             ELSE /\ calls' = [calls EXCEPT ![id].attempts = @ + 1]
                  /\ UNCHANGED <<engineVars, log, ghost>>

(* ------------------------------------------------------------------ *)
(* The engine called directly, one call after the other                *)
(* ------------------------------------------------------------------ *)
CallInit ==
    /\ InFlight = {} /\ ops < MaxOps
    /\ \E data \in Payloads : init(data)
    /\ ops' = ops + 1
    /\ UNCHANGED <<uiVars, fresh, probe>>
CallAnswer ==
    /\ InFlight = {} /\ ops < MaxOps
    /\ \E query \in Queries : generateResponse(query)
    /\ ops' = ops + 1
    /\ UNCHANGED <<initLog, uiVars, fresh, probe>>
\* a query that is in the response cache is asked once more after a second
\* init call
CallCached ==
    /\ InFlight = {} /\ ops = MaxOps /\ initLog.count >= 2
    /\ \E query \in Queries :
          /\ MapHas(responseCache, CacheKey(query))
          /\ generateResponse(query)
    /\ ops' = ops + 1
    /\ UNCHANGED <<initLog, uiVars, fresh, probe>>
LookupSettles ==
    /\ \E id \in DOMAIN calls : LookupReturns(id)
    /\ UNCHANGED <<initLog, uiVars, ops, fresh, probe>>
GeneratorRuns ==
    /\ \E id \in DOMAIN calls : generateNeuralText(id)
    /\ UNCHANGED <<initLog, uiVars, ops, fresh, probe>>

Next == CallInit \/ CallAnswer \/ CallCached \/ LookupSettles \/ GeneratorRuns
Spec == Init /\ [][Next]_vars

(* ------------------------------------------------------------------ *)
(* The engine on a corpus that puts the top score on the thresholds    *)
(* ------------------------------------------------------------------ *)
ThresholdInit ==
    /\ initLog.count = 0 /\ ops < MaxThresholdOps
    /\ \E data \in ThresholdPayloads : init(data)
    /\ ops' = ops + 1
    /\ UNCHANGED <<uiVars, fresh, probe>>
ThresholdAnswer ==
    /\ initLog.count = 1 /\ InFlight = {} /\ ops < MaxThresholdOps
    /\ \E query \in ThresholdQueries : generateResponse(query)
    /\ ops' = ops + 1
    /\ UNCHANGED <<initLog, uiVars, fresh, probe>>
NextThreshold == ThresholdInit \/ ThresholdAnswer \/ LookupSettles \/ GeneratorRuns
SpecThreshold == Init /\ [][NextThreshold]_vars

(* ------------------------------------------------------------------ *)
(* The engine asked ever new queries, which fills the bounded          *)
(* collections                                                         *)
(* ------------------------------------------------------------------ *)
CacheInit ==
    /\ initLog.count = 0
    /\ init(CachePayload)
    /\ UNCHANGED <<uiVars, ops, fresh, probe>>
CacheAnswer ==
    /\ initLog.count = 1 /\ InFlight = {} /\ fresh < MaxFresh
    /\ generateResponse(NumQuery(fresh))
    /\ fresh' = fresh + 1
    /\ UNCHANGED <<initLog, uiVars, ops, probe>>
\* a direct lookup of the next query, which is then answered from the
\* wiki cache
CacheLookup ==
    /\ initLog.count = 1 /\ InFlight = {} /\ fresh < MaxFresh
    /\ ~MapHas(wikiCache, NumQuery(fresh))
    /\ searchWikipedia(NumQuery(fresh))
    /\ UNCHANGED <<initLog, uiVars, ops, fresh, probe>>
NextCache == CacheInit \/ CacheAnswer \/ CacheLookup \/ LookupSettles \/ GeneratorRuns
SpecCache == Init /\ [][NextCache]_vars

(* ------------------------------------------------------------------ *)
(* The chat controller in front of the engine                          *)
(* ------------------------------------------------------------------ *)
UIPayloads == {MainPayload}
UITexts == { Str("what is rust"), Str("rust language"), Str("  ") }

\* the boot sequence: once window.GUAHH_MEMORY is there, init runs on a timer
Boot ==
    /\ initLog.count = 0
    /\ \E data \in UIPayloads : init(data)
    /\ UNCHANGED <<uiVars, ops, fresh, probe>>
\* the user edits the input box
TypeText ==
    /\ ~InGenerator /\ ~PendingResume
    /\ \E text \in UITexts : text # inputValue /\ inputValue' = text
    /\ UNCHANGED <<engineVars, callVars, initLog, btnDisabled, sends, ops, fresh, probe>>
\* sendMessage() up to its first await: an empty text returns at once, else
\* the box is cleared, the button is disabled and the delay starts
sendMessage ==
    LET text == Trim(inputValue)
    IN  /\ ~InGenerator /\ ~PendingResume
        /\ Len(sends) < MaxSends
        /\ IF text = <<>>
           THEN UNCHANGED uiVars
           ELSE /\ inputValue' = <<>>
                /\ btnDisabled' = TRUE
                /\ sends' = Append(sends, [text |-> text, pc |-> "delay", call |-> 0])
        /\ UNCHANGED <<engineVars, callVars, initLog, ops, fresh, probe>>
\* a click on the send button: a disabled button fires no click event
ClickSend == ~btnDisabled /\ sendMessage
\* the keydown listener of the input box: only Enter without shift sends
KeyDown(key, shiftKey) == key = "Enter" /\ ~shiftKey /\ sendMessage
PressEnter == \E shiftKey \in BOOLEAN : KeyDown("Enter", shiftKey)
\* the 600 ms delay of a sendMessage is over (the timers fire in the order
\* they were set): it calls generateResponse(text) and awaits the result
TimerFires ==
    \E s \in DOMAIN sends :
        /\ sends[s].pc = "delay"
        /\ \A j \in 1..(s - 1) : sends[j].pc # "delay"
        /\ generateResponse(sends[s].text)
        /\ sends' = [sends EXCEPT ![s] = [@ EXCEPT !.pc = "await", !.call = FreeId]]
        /\ UNCHANGED <<initLog, inputValue, btnDisabled, ops, fresh, probe>>
\* the awaited call has settled: with a result the bubble is added and the
\* button enabled again, with an exception sendMessage ends there
SendResumes ==
    \E s \in DOMAIN sends :
        /\ sends[s].pc = "await" /\ sends[s].call \notin DOMAIN calls
        /\ IF Last(log).outcome = "returned"
           THEN /\ sends' = [sends EXCEPT ![s].pc = "done"]
                /\ btnDisabled' = FALSE
           ELSE /\ sends' = [sends EXCEPT ![s].pc = "failed"]
                /\ btnDisabled' = btnDisabled
        /\ UNCHANGED <<engineVars, callVars, initLog, inputValue, ops, fresh, probe>>
NextUI ==
    \/ Boot \/ TypeText \/ ClickSend \/ PressEnter \/ TimerFires \/ SendResumes
    \/ LookupSettles \/ GeneratorRuns
SpecUI == Init /\ [][NextUI]_vars
\* The tasks of the event loop, by what they do to the control state: the
\* timer of a sendMessage fires (TimerFires), the fetch of a call settles
\* (LookupSettles) and a run of the generator ends (GeneratorRuns).
TimerTask ==
    /\ ~InGenerator /\ ~PendingResume
    /\ \E s \in DOMAIN sends :
          /\ sends[s].pc = "delay"
          /\ sends' = [sends EXCEPT ![s] = [@ EXCEPT !.pc = "await", !.call = FreeId]]
FetchTask ==
    /\ ~InGenerator /\ ~PendingResume
    /\ \E id \in DOMAIN calls :
          /\ calls[id].pc = "lookup"
          /\ calls' \in {Drop(id), [calls EXCEPT ![id].pc = "gen"]}
GeneratorTask ==
    \E id \in DOMAIN calls :
        /\ calls[id].pc = "gen"
        /\ calls' \in {Drop(id), [calls EXCEPT ![id].attempts = @ + 1]}
\* the event loop runs every task that is ready: a timer that is due fires, a
\* fetch settles, a synchronous run of the generator ends and a settled await
\* resumes; the user's events are not forced
SpecUILive ==
    /\ Init /\ [][NextUI]_vars
    /\ WF_sends(TimerTask) /\ WF_vars(SendResumes)
    /\ WF_calls(FetchTask) /\ WF_calls(GeneratorTask)

(* ------------------------------------------------------------------ *)
(* The engine's functions applied to inputs                            *)
(* ------------------------------------------------------------------ *)
\* a corpus in which every question has the token "apple": twelve questions
\* of two tokens, five of three, and one of twenty
OrchardPayload ==
    Payload(<< QAItem("apple red", "Red apples are sweet."),
               QAItem("apple pie recipe", "Bake the apples in a crust."),
               QAItem("apple green", "Green apples are sour."),
               QAItem("apple gold", "Golden apples are soft."),
               QAItem("apple juice press", "Press the apples for juice."),
               QAItem("apple pink", "Pink apples are crisp."),
               QAItem("apple tree", "Apples grow on trees."),
               QAItem("apple seed", "Apple seeds are small."),
               QAItem("apple banana bread", "Bread with two fruits."),
               QAItem("apple core", "The core holds the seeds."),
               QAItem("apple skin", "The skin is thin."),
               QAItem("apple alpha bravo charlie delta echo foxtrot golf hotel india juliet kilo lima mike november oscar papa quebec romeo sierra",
                      "The alphabet and a fruit."),
               QAItem("apple stem", "The stem is short."),
               QAItem("apple cider vinegar", "Vinegar made of cider."),
               QAItem("apple leaf", "The leaves are oval."),
               QAItem("apple pie crust", "The crust is made of butter."),
               QAItem("apple wood", "The wood burns well."),
               QAItem("apple farm", "Farms grow many apples.") >>)
\* a corpus with a question about constructors
ConstructorPayload ==
    Payload(<< QAItem("what is a constructor", "A constructor builds an object."),
               QAItem("what is rust", "Rust is a language.") >>)
ScorePayloads == {OrchardPayload, ConstructorPayload, MainPayload}
ScoreQueries ==
    { Str("apple"), Str("apple apple"), Str("apple pie"), Str("banana apple"),
      Str("zebra"), Str("what constructor"), Str("what is rust"), Str("is a") }

\* successive calls are told apart by the parity of their number
NextCall == IF probe.fn = "none" THEN 0 ELSE 1 - probe.call
\* a recursion of generateNeuralText is under way
Retrying == probe.fn = "generateNeuralText" /\ probe.outcome = "retry"
\* retrieveRelevant(qTokens) on a loaded corpus, with the score of every entry
ScoreCorpus ==
    /\ probe.fn \in {"none", "retrieveRelevant"}
    /\ \E data \in ScorePayloads, query \in ScoreQueries :
         LET mem == BuildMemory(data.items)
             qTokens == tokenize(query)
         IN  probe' = [fn |-> "retrieveRelevant", call |-> NextCall,
                       memory |-> mem, qTokens |-> qTokens,
                       scores |-> [i \in DOMAIN mem |-> ScoreEntry(mem, mem[i], qTokens)],
                       docs |-> retrieveRelevant(mem, qTokens)]
    /\ UNCHANGED <<engineVars, callVars, initLog, uiVars, ops, fresh>>

\* computeSimilarity(text1, text2) on texts with and without words, in
\* either case, with leading and trailing whitespace
SimilarityTexts ==
    { Str(""), Str(" "), Str("cat"), Str("Cat"), Str(" cat"), Str("dog "),
      Str("cat dog"), Str("dog  bird") }
CompareTexts ==
    /\ probe.fn \in {"none", "computeSimilarity"}
    /\ \E text1 \in SimilarityTexts, text2 \in SimilarityTexts :
         probe' = [fn |-> "computeSimilarity", call |-> NextCall,
                   text1 |-> text1, text2 |-> text2,
                   similarity |-> computeSimilarity(text1, text2)]
    /\ UNCHANGED <<engineVars, callVars, initLog, uiVars, ops, fresh>>

\* two contexts that start with "constructor"; contexts with a sentence end
\* as word 16 and 18, as word 17 and 20, with
\* fewer than three words and without words, with a short last sentence, and
\* a context of four words
FirstConstructorContext == "constructor builds objects nicely"
SecondConstructorContext == "constructor makes things work"
GeneratorContexts ==
    { Str(FirstConstructorContext), Str(SecondConstructorContext), Str("alpha bravo charlie delta echo foxtrot golf hotel india juliet kilo lima mike november oscar. papa! quebec romeo sierra"),
      Str("alpha bravo charlie delta echo foxtrot golf hotel india juliet kilo lima mike november oscar papa. quebec romeo? sierra tango uniform"),
      Str(""), Str("   "), Str("alpha"), Str("international"), Str("alpha bravo"),
      Str("alpha bravo charlie delta echo. go on up"),
      Str("alpha bravo charlie delta") }
TargetLengths == {0, 3, 50}
\* the recent outputs of the engine at the time of the call
RecentLists ==
    { <<>>,
      << Str("Alpha bravo charlie delta echo. go on up") >>,
      << Str("alpha bravo charlie delta echo") >>,
      << Str("alpha bravo charlie delta echo ") >>,
      << Str("One."), Str("Two."), Str("Three."), Str("Four."),
         Str("alpha bravo charlie delta echo foxtrot") >> }

\* one invocation of generateNeuralText(sourceText, targetLength) with the
\* given recent outputs: the text is returned if the validator accepts it,
\* else the function calls itself, and the call stack is exhausted at depth
\* StackLimit
Invocation(objectTable, sourceText, targetLength, recent, depth) ==
    \E output \in AttemptOutputsOn(objectTable, sourceText, targetLength) :
       probe' = [fn |-> "generateNeuralText", sourceText |-> sourceText,
                 targetLength |-> targetLength, recent |-> recent, depth |-> depth,
                 objectTable |-> ObjectTable(NGramModelOn(objectTable,
                                                          ContextWords(sourceText))),
                 output |-> output, text |-> Detokenize(output),
                 outcome |-> IF validateOutput(Detokenize(output), recent) THEN "returned"
                             ELSE IF depth >= StackLimit THEN "threw" ELSE "retry"]
GenerateText ==
    /\ probe.fn = "none"
    /\ \E sourceText \in GeneratorContexts, targetLength \in TargetLengths,
          recent \in RecentLists : Invocation(<<>>, sourceText, targetLength, recent, 1)
    /\ UNCHANGED <<engineVars, callVars, initLog, uiVars, ops, fresh>>
GenerateRetries ==
    /\ Retrying
    /\ Invocation(probe.objectTable, probe.sourceText, probe.targetLength, probe.recent,
                  probe.depth + 1)
    /\ UNCHANGED <<engineVars, callVars, initLog, uiVars, ops, fresh>>
\* a later call of generateNeuralText in the same process, after a call
\* whose context had a successor of "constructor"
GenerateAgain ==
    /\ probe.fn = "generateNeuralText" /\ probe.outcome = "returned"
    /\ probe.objectTable # <<>> /\ probe.sourceText = Str(FirstConstructorContext)
    /\ \E targetLength \in TargetLengths :
          Invocation(probe.objectTable, Str(SecondConstructorContext), targetLength,
                     probe.recent, 1)
    /\ UNCHANGED <<engineVars, callVars, initLog, uiVars, ops, fresh>>

\* frequency tables in key order: none, one and several candidates, equal
\* and different counts, the most frequent candidate first or not
Candidate(word, count) == [word |-> Str(word), count |-> count]
FrequencyTables ==
    { <<>>,
      << Candidate("sun", 3) >>,
      << Candidate("sun", 1), Candidate("moon", 1) >>,
      << Candidate("sun", 1), Candidate("moon", 5), Candidate("star", 1) >>,
      << Candidate("sun", 9), Candidate("moon", 1) >>,
      << Candidate("sun", 2), Candidate("moon", 2), Candidate("star", 2), Candidate("sky", 2) >>,
      << Candidate("sun", 1), Candidate("moon", 2), Candidate("star", 3), Candidate("sky", 4),
         Candidate("rain", 10) >>,
      << Candidate("sun", 3), Candidate("moon", 3), Candidate("star", 1) >> }
TopPValues == { Fraction(1, 10), Fraction(1, 2), Fraction(9, 10), Fraction(1, 1) }
\* sampleWithTemperature(candidateFreq, 0.8, topP): the nucleus and the
\* word returned by a draw, or null
SampleTable ==
    /\ probe.fn \in {"none", "sampleWithTemperature"}
    /\ \E candidateFreq \in FrequencyTables, topP \in TopPValues :
         LET words == sampleWithTemperature(candidateFreq, topP)
             Sampled(returned) ==
                 probe' = [fn |-> "sampleWithTemperature", candidateFreq |-> candidateFreq,
                           topP |-> topP,
                           nucleus |-> IF candidateFreq = <<>> THEN <<>>
                                       ELSE Nucleus(candidateFreq, topP),
                           returned |-> returned]
         IN  IF words = {} THEN Sampled(NullText)
             ELSE \E w \in words : Sampled(SomeText(w))
    /\ UNCHANGED <<engineVars, callVars, initLog, uiVars, ops, fresh>>

NextFunctions ==
    \/ ScoreCorpus \/ CompareTexts \/ SampleTable
    \/ GenerateText \/ GenerateRetries \/ GenerateAgain
SpecFunctions == Init /\ [][NextFunctions]_vars


(* ------------------------------------------------------------------ *)
(* Properties                                                          *)
(* ------------------------------------------------------------------ *)
Answered == {i \in DOMAIN log : log[i].kind = "answer"}
TextStates == {"wiki", "verbatim", "generated", "fallback"}
LocalStates == {"nomatch", "lowconf", "verbatim", "generated", "fallback", "error"}

\* C3: a call of the generator performs at most two generation attempts
\* (one retry after a rejected attempt), whatever the context and the
\* recent outputs are.
C3_AtMostTwoAttempts ==
    /\ \A id \in DOMAIN calls : calls[id].attempts <= 2
    /\ \A i \in DOMAIN log : log[i].attempts <= 2

\* C4: every answer() call completes with a normal result and never raises
\* an exception, also when the lookup fails or the validator rejects a text.
C4_NeverRaises ==
    \A i \in Answered : log[i].outcome = "returned"

\* two answer() calls in a row with the same query on a ready engine, no
\* init in between, the lookup answering the same both times
SameQueryTwice ==
    /\ Len(log) = 2 /\ Answered = {1, 2}
    /\ log[1].query = log[2].query
    /\ log[1].epoch = log[2].epoch
    /\ log[1].pre.isReady
    /\ ~(log[1].lookup = "ok" /\ log[2].lookup = "absent")
    /\ ~(log[1].lookup = "absent" /\ log[2].lookup = "ok")

C6_FirstMatchWins ==
    \A i \in Answered :
        LET e == log[i]
            cached == MapHas(e.pre.responseCache, CacheKey(e.query))
            meta == isMetaQuery(e.query)
            dict == ~checkDictionaryInquiry(e.pre.dictionary, e.query).null
        IN  /\ (e.state = "notready") <=> ~e.pre.isReady
            /\ (e.state = "cache") <=> (e.pre.isReady /\ cached)
            /\ (e.state = "meta") <=> (e.pre.isReady /\ ~cached /\ meta)
            /\ (e.state = "dict") <=> (e.pre.isReady /\ ~cached /\ ~meta /\ dict)
            /\ (e.state \in {"notready", "cache", "meta", "dict"}) <=> (e.lookup = "none")
            /\ (e.state = "wiki") <=> (e.lookup \in {"ok", "cached"})
            /\ (e.state \in LocalStates) <=> (e.lookup = "absent")
C6_Witness ==
    \E i \in Answered :
        /\ log[i].state = "meta"
        /\ ~checkDictionaryInquiry(log[i].pre.dictionary, log[i].query).null

\* C8 as stated: init returns false iff the payload is absent, and after an
\* absent or empty payload the index is still not ready and answer() returns
\* the "not initialized" result.
C8_EmptyStaysNotReady ==
    /\ initLog.count > 0 =>
          /\ (initLog.ret = FALSE) <=> initLog.null
          /\ ((initLog.null \/ initLog.empty) /\ ~initLog.readyBefore) => ~isReady
    /\ \A i \in Answered :
          ~log[i].pre.isReady => (log[i].outcome = "returned" /\ log[i].result = NotReadyResult)

\* C8 as amended: init returns false iff the payload is absent; an absent
\* payload leaves the index as it was, so that on an engine that was never
\* initialised every answer() returns the "not initialized" result; any
\* other payload, the empty one included, returns true and makes the index
\* ready.
C8_InitResult ==
    /\ initLog.count > 0 =>
          /\ (initLog.ret = FALSE) <=> initLog.null
          /\ initLog.null => (isReady = initLog.readyBefore)
          /\ ~initLog.null => isReady
          /\ (initLog.empty /\ ~initLog.null) => (isReady /\ memory = <<>>)
    /\ \A i \in Answered :
          ~log[i].pre.isReady =>
              /\ log[i].outcome = "returned" /\ log[i].result = NotReadyResult
              /\ log[i].state = "notready"
C8_Witness ==
    /\ initLog.count > 0 /\ initLog.null /\ ~isReady
    /\ \E i \in Answered : log[i].state = "notready" /\ log[i].epoch > 0

\* C9: a call that ends in the "not initialized", "insufficient information"
\* or "not confident" result leaves the SessionCache, the ConversationHistory
\* and the RecentOutputs as they were when it was called.
C9_FixedResultsWriteNothing ==
    [][ (log' # log /\ Last(log').kind = "answer"
           /\ Last(log').state \in {"notready", "nomatch", "lowconf"})
        => /\ responseCache' = Last(log').pre.responseCache
           /\ conversationHistory' = Last(log').pre.conversationHistory
           /\ recentOutputs' = Last(log').pre.recentOutputs ]_vars
C9_Witness ==
    /\ log # <<>> /\ Last(log).state = "nomatch"
    /\ Last(log).pre.conversationHistory # <<>>
    /\ conversationHistory = Last(log).pre.conversationHistory

\* the top score of a call that reached the local fallback
AtLeastTenth(e) == e.top.has /\ ~ScoreLT(e.top.score, 1, 10)
\* C7 as stated: in the local fallback, no entry scoring >= 0.1 gives
\* "insufficient information"; "not confident" is the result exactly of the
\* queries that are not long-form and score in (0.1, 0.15]; above 0.85 and
\* not long-form gives the top answer verbatim; otherwise above 0.15 or
\* long-form runs the generator.
C7_OpenAtFloor ==
    \A i \in Answered :
        LET e == log[i]
        IN  (e.state \in LocalStates) =>
              /\ (e.state = "nomatch") <=> ~AtLeastTenth(e)
              /\ (e.state = "lowconf") <=>
                    (/\ ~e.longForm /\ e.top.has
                     /\ ScoreGT(e.top.score, 1, 10) /\ ~ScoreGT(e.top.score, 15, 100))
              /\ (e.state = "verbatim") <=>
                    (AtLeastTenth(e) /\ ScoreGT(e.top.score, 85, 100) /\ ~e.longForm)
              /\ (e.attempts > 0) <=>
                    (/\ AtLeastTenth(e)
                     /\ ~(ScoreGT(e.top.score, 85, 100) /\ ~e.longForm)
                     /\ (ScoreGT(e.top.score, 15, 100) \/ e.longForm))

\* C7 as amended: the same, with "not confident" the result exactly of the
\* queries that are not long-form and score in [0.1, 0.15], both ends
\* included.
C7_Thresholds ==
    \A i \in Answered :
        LET e == log[i]
        IN  (e.state \in LocalStates) =>
              /\ (e.state = "nomatch") <=> ~AtLeastTenth(e)
              /\ (e.state = "lowconf") <=>
                    (~e.longForm /\ AtLeastTenth(e) /\ ~ScoreGT(e.top.score, 15, 100))
              /\ (e.state = "verbatim") <=>
                    (AtLeastTenth(e) /\ ScoreGT(e.top.score, 85, 100) /\ ~e.longForm)
              /\ (e.attempts > 0) <=>
                    (/\ AtLeastTenth(e)
                     /\ ~(ScoreGT(e.top.score, 85, 100) /\ ~e.longForm)
                     /\ (ScoreGT(e.top.score, 15, 100) \/ e.longForm))
C7_Witness ==
    /\ \E i \in Answered :
          /\ log[i].state = "lowconf" /\ log[i].top.has
          /\ log[i].top.score.n * 10 = log[i].top.score.u * ScoreUnit
    /\ \E i \in Answered :
          /\ log[i].state = "lowconf" /\ log[i].top.has
          /\ log[i].top.score.n * 100 = 15 * log[i].top.score.u * ScoreUnit
\* the last cap elements of a list
LastN(l, cap) == IF Len(l) > cap THEN SubSeq(l, Len(l) - cap + 1, Len(l)) ELSE l
Responses(h) == [i \in DOMAIN h |-> h[i].response]

\* C1: the response cache never holds more than 100 entries, and its keys
\* are the last 100 keys inserted, in insertion order (the oldest-inserted
\* key is the one evicted), after any mix of answers from the external
\* lookup and from the local branch.
C1_SessionCacheBounded ==
    /\ Len(responseCache) <= ResponseCacheCap
    /\ MapKeys(responseCache) = LastN(ghost.responseKeys, ResponseCacheCap)

\* C2: at most one generateResponse call is in flight at any time, under
\* every interleaving of clicks, Enter key presses and completions.
C2_OneInFlight ==
    Cardinality({id \in InFlight : calls[id].kind = "answer"}) <= 1

\* C10: the wiki cache holds at most 50 entries, the recent outputs at most
\* 5 texts and the history at most 10 records; the wiki cache holds the last
\* 50 keys inserted, the recent outputs and the history are the last 5 and 10
\* appended items in append order.
C10_BoundedCollections ==
    /\ Len(wikiCache) <= WikiCacheCap
    /\ Len(recentOutputs) <= RecentCap
    /\ Len(conversationHistory) <= HistoryCap
    /\ MapKeys(wikiCache) = LastN(ghost.wikiKeys, WikiCacheCap)
    /\ recentOutputs = LastN(Responses(ghost.history), RecentCap)
    /\ conversationHistory = LastN(ghost.history, HistoryCap)
\* each of the three collections has overflowed
C10_Witness ==
    /\ Len(ghost.wikiKeys) > WikiCacheCap
    /\ Len(ghost.history) > HistoryCap
    /\ Len(wikiCache) = WikiCacheCap
    /\ Len(recentOutputs) = RecentCap
    /\ Len(conversationHistory) = HistoryCap

\* a response of the service that is no article: a network or parse error,
\* a missing page, an empty extract, a disambiguation page
LookupFails(o) ==
    o.kind # "page" \/ o.extract = <<>> \/ Contains(o.extract, Str("refer to:"))
\* C11: a failed lookup yields absent, stores nothing in the wiki cache and
\* the call goes on into the local fallback; a successful lookup returns the
\* summary tagged "Wikipedia", which is then in the response cache under the
\* lower-cased, trimmed query.
C11_LookupOutcome ==
    [][ (log' # log /\ Last(log').kind = "answer") =>
        LET e == Last(log')
        IN  /\ (e.lookup = "absent") =>
                  (wikiCache' = e.pre.wikiCache /\ e.state \in LocalStates)
            /\ (e.lookup \notin {"none", "cached"}
                  /\ \A o \in FetchOutcomes(e.query) : LookupFails(o)) => e.lookup = "absent"
            /\ (e.lookup = "ok") =>
                  /\ \E o \in FetchOutcomes(e.query) : ~LookupFails(o)
                  /\ e.outcome = "returned" /\ e.state = "wiki"
                  /\ e.result.sources = <<Tag("Wikipedia")>>
                  /\ MapHas(wikiCache', e.query)
                  /\ e.result.text = MapGet(wikiCache', e.query)
                  /\ MapHas(responseCache', Trim(ToLower(e.query)))
                  /\ MapGet(responseCache', Trim(ToLower(e.query))) = e.result ]_vars
\* an untrimmed, capitalised query was answered by the lookup, and a
\* disambiguation page sent another call into the local fallback
C11_Witness ==
    /\ Len(log) = 2
    /\ log[1].query = Str("language rust") /\ log[1].lookup = "absent"
    /\ log[1].state \in LocalStates
    /\ log[2].query = Str("What is Rust ") /\ log[2].state = "wiki"
    /\ MapHas(responseCache, Str("what is rust"))

\* a score between 0 and 1, and the score 0
InUnitInterval(sc) == sc.u > 0 /\ 0 <= sc.n /\ sc.n <= sc.u * ScoreUnit
IsZeroScore(sc) == sc.u > 0 /\ sc.n = 0
\* C12: for every corpus and every tokenized query the score of each entry
\* lies in [0, 1], and an entry that shares no token with the query scores 0.
C12_ScoreInUnitInterval ==
    (probe.fn = "retrieveRelevant" /\ probe.qTokens # <<>>) =>
        \A i \in DOMAIN probe.memory :
            /\ InUnitInterval(probe.scores[i])
            /\ (Range(probe.memory[i].tokens) \cap Range(probe.qTokens) = {})
                  => IsZeroScore(probe.scores[i])
\* without the term "constructor" the claim holds: duplicate query tokens
\* reach the cap, a term of every entry adds nothing
C12_ScoreInUnitIntervalOwnTerms ==
    (probe.fn = "retrieveRelevant" /\ probe.qTokens # <<>>
       /\ \A i \in DOMAIN probe.qTokens : DocFreqIsCount(probe.qTokens[i])) =>
        \A i \in DOMAIN probe.memory :
            /\ InUnitInterval(probe.scores[i])
            /\ (Range(probe.memory[i].tokens) \cap Range(probe.qTokens) = {})
                  => IsZeroScore(probe.scores[i])

\* the entries of the probed corpus that qualify, the corpus position of the
\* k-th returned entry, and the ranking: higher score first, equal scores in
\* corpus order
Qualifying == {i \in DOMAIN probe.memory : ScoreGT(probe.scores[i], 5, 100)}
CorpusIndex(k) == CHOOSE i \in DOMAIN probe.memory : probe.memory[i] = probe.docs[k].doc
SameScore(s1, s2) == ~ScoreLess(s1, s2) /\ ~ScoreLess(s2, s1)
RankedBefore(i, j) ==
    \/ ScoreLess(probe.scores[j], probe.scores[i])
    \/ SameScore(probe.scores[i], probe.scores[j]) /\ i < j
Returned == {CorpusIndex(k) : k \in DOMAIN probe.docs}
\* C13: the scorer returns at most 15 entries, each with a score above 0.05,
\* by non-increasing score with equal scores in corpus order; they are exactly
\* the highest-ranked qualifying entries; the same inputs give the same result
\* on every call.
C13_TopRanked ==
    /\ [](probe.fn = "retrieveRelevant" =>
            /\ Len(probe.docs) <= 15
            /\ Len(probe.docs) = IF Cardinality(Qualifying) < 15
                                 THEN Cardinality(Qualifying) ELSE 15
            /\ \A k \in DOMAIN probe.docs :
                  /\ \E i \in DOMAIN probe.memory : probe.memory[i] = probe.docs[k].doc
                  /\ CorpusIndex(k) \in Qualifying
                  /\ probe.docs[k].score = probe.scores[CorpusIndex(k)]
                  /\ ScoreGT(probe.docs[k].score, 5, 100)
            /\ \A k, l \in DOMAIN probe.docs :
                  k < l => /\ ~ScoreLess(probe.docs[k].score, probe.docs[l].score)
                           /\ RankedBefore(CorpusIndex(k), CorpusIndex(l))
            /\ \A j \in Qualifying \ Returned :
                  \A i \in Returned : RankedBefore(i, j))
    /\ [][ (probe.fn = "retrieveRelevant" /\ probe'.fn = "retrieveRelevant"
              /\ probe'.memory = probe.memory /\ probe'.qTokens = probe.qTokens)
           => probe'.docs = probe.docs ]_vars
\* more than 15 entries qualify, the scores tie inside the result and across
\* the cut, and an entry is left out because its score is exactly 0.05
C13_Witness ==
    /\ probe.fn = "retrieveRelevant" /\ probe.call = 1
    /\ Cardinality(Qualifying) > 15 /\ Len(probe.docs) = 15
    /\ SameScore(probe.docs[1].score, probe.docs[2].score)
    /\ ScoreLess(probe.docs[15].score, probe.docs[1].score)
    /\ \E j \in Qualifying \ Returned : SameScore(probe.scores[j], probe.docs[15].score)
    /\ \E i \in DOMAIN probe.memory :
          probe.scores[i].n * 100 = 5 * probe.scores[i].u * ScoreUnit

\* an answer() call that completes now on the verbatim path: the lookup was
\* absent, the top score is above 0.85 and the query is not long-form
VerbatimCase ==
    /\ log' # log /\ Last(log').kind = "answer"
    /\ Last(log').lookup = "absent"
    /\ Last(log').top.has /\ ScoreGT(Last(log').top.score, 85, 100)
    /\ ~Last(log').longForm
\* C14: on the verbatim path answer() returns the top entry's answer verbatim
\* without running the generator, and the sources of the result are the
\* 'Local Memory' provenance tag.
C14_VerbatimTagged ==
    [][ VerbatimCase =>
          /\ Last(log').outcome = "returned" /\ Last(log').attempts = 0
          /\ Last(log').result.text = LocalContext(memory, Last(log').query).docs[1].doc.a
          /\ Last(log').result.sources = <<Tag("Local Memory")>> ]_vars
\* the text and the generator part of C14 alone holds; the sources are the
\* scores of the best three entries
C14_VerbatimScored ==
    [][ VerbatimCase =>
          /\ Last(log').outcome = "returned" /\ Last(log').attempts = 0
          /\ Last(log').result.text = LocalContext(memory, Last(log').query).docs[1].doc.a
          /\ Last(log').result.sources = LocalSources(LocalContext(memory, Last(log').query).docs)
          /\ Last(log').result.sources # <<>>
          /\ \A k \in DOMAIN Last(log').result.sources :
                Last(log').result.sources[k].tag = "score" ]_vars

\* the words of a text, and the similarities 0 and 1 (the result is 0 when
\* the union is empty)
WordsOf(text) == {w \in Range(SplitWS(ToLower(text))) : w # <<>>}
IsZeroSimilarity(sim) == sim[2] = 0 \/ sim[1] = 0
IsOneSimilarity(sim) == sim[2] # 0 /\ sim[1] = sim[2]
\* C15: computeSimilarity(x, x) = 1 for every non-empty x, computeSimilarity(x, y)
\* = 0 whenever x and y share no words, also with leading or trailing
\* whitespace, and the result is 0 when both inputs are empty.
C15_Jaccard ==
    probe.fn = "computeSimilarity" =>
        /\ (probe.text1 = probe.text2 /\ probe.text1 # <<>>)
              => IsOneSimilarity(probe.similarity)
        /\ (WordsOf(probe.text1) \cap WordsOf(probe.text2) = {})
              => IsZeroSimilarity(probe.similarity)
        /\ (probe.text1 = <<>> /\ probe.text2 = <<>>)
              => IsZeroSimilarity(probe.similarity)
\* for texts that have a word and neither start nor end with whitespace, the
\* result is the Jaccard index of the word sets
C15_JaccardOfTrimmed ==
    (probe.fn = "computeSimilarity"
       /\ \A t \in {probe.text1, probe.text2} : t # <<>> /\ Trim(t) = t) =>
        /\ probe.similarity[1] = Cardinality(WordsOf(probe.text1) \cap WordsOf(probe.text2))
        /\ probe.similarity[2] = Cardinality(WordsOf(probe.text1) \cup WordsOf(probe.text2))
        /\ probe.text1 = probe.text2 => IsOneSimilarity(probe.similarity)

\* the words of the dictionary records loaded last, the last record loaded
\* for a word, the cleaned form of a query (lower case, letters and
\* whitespace only, trimmed) and its final word (what follows the last space)
LoadedWords(items) == {items[i].word : i \in {j \in DOMAIN items : items[j].type = "dict"}}
LastRecord(items, word) ==
    items[CHOOSE i \in DOMAIN items :
            /\ items[i].type = "dict" /\ items[i].word = word
            /\ \A j \in (i + 1)..Len(items) :
                  ~(items[j].type = "dict" /\ items[j].word = word)]
CleanedForm(query) == Trim(SelectSeq(ToLower(query), LAMBDA c : IsLower(c) \/ c \in WS))
FinalWord(clean) ==
    IF \E i \in DOMAIN clean : clean[i] = " "
    THEN SubSeq(clean, (CHOOSE i \in DOMAIN clean :
                          clean[i] = " " /\ \A j \in (i + 1)..Len(clean) : clean[j] # " ") + 1,
                Len(clean))
    ELSE clean
\* C16: on a loaded engine a non-meta, uncached query whose cleaned form or
\* whose final word is the word of a loaded dictionary record returns exactly
\* "**word** (pos): definition" tagged 'Dictionary', built from the record
\* loaded last for that word.
C16_DictionaryAnswer ==
    [][ (log' # log /\ Last(log').kind = "answer"
           /\ Last(log').pre.isReady
           /\ ~isMetaQuery(Last(log').query)
           /\ ~MapHas(Last(log').pre.responseCache, Trim(ToLower(Last(log').query)))
           /\ \/ CleanedForm(Last(log').query) \in LoadedWords(ghost.loaded)
              \/ FinalWord(CleanedForm(Last(log').query)) \in LoadedWords(ghost.loaded))
        => LET e == Last(log')
               clean == CleanedForm(e.query)
               rec == LastRecord(ghost.loaded,
                                 IF clean \in LoadedWords(ghost.loaded)
                                 THEN clean ELSE FinalWord(clean))
           IN  /\ e.outcome = "returned"
               /\ e.result.text = Str("**") \o rec.word \o Str("** (") \o rec.pos
                                    \o Str("): ") \o rec.def
               /\ e.result.sources = <<Tag("Dictionary")>>
               /\ e.lookup = "none" ]_vars
\* "banana" is loaded twice; the one-word query and the query that ends with
\* the word both get the definition loaded last
C16_Witness ==
    /\ Len(log) = 2
    /\ log[1].query = Str("banana") /\ log[2].query = Str("A banana?")
    /\ log[1].result.text = Str("**banana** (noun): a yellow fruit")
    /\ log[2].result = log[1].result
    /\ Len(SelectSeq(ghost.loaded, LAMBDA it : it.type = "dict" /\ it.word = Str("banana"))) = 2

\* the words of the probed context, a sentence-ending word, and a dead end
\* after the k-th word of an output: no table for the last two words and
\* none for the last word
ProbedWords == ContextWords(probe.sourceText)
IsSentenceEnd(w) == w \in {<<".">>, <<"!">>, <<"?">>}
DeadEnd(out, k) ==
    CandidatePool(NGramModel(ProbedWords), IF k = 1 THEN <<>> ELSE out[k - 1], out[k]) = <<>>
\* C17: one generation attempt performs at most targetLength sampling steps
\* (its output has at most targetLength + 1 words), and it stops at the first
\* step after which at least 16 words have been produced and the current word
\* is one of '.', '!', '?'.
C17_StopsAtSixteenWords ==
    probe.fn = "generateNeuralText" =>
        /\ Len(probe.output) >= 1
        /\ Len(probe.output) - 1 <= probe.targetLength
        /\ \A k \in 2..(Len(probe.output) - 1) :
              ~(k >= 16 /\ IsSentenceEnd(probe.output[k]))
\* C17 as the code has it: at most targetLength steps; the attempt stops at
\* the first step after which at least 18 words have been produced (the
\* starter and 17 sampled words) and the current word ends a sentence; it
\* stops before targetLength steps only there or at a dead end.
C17_StopsAtEighteenWords ==
    probe.fn = "generateNeuralText" =>
        /\ Len(probe.output) >= 1
        /\ Len(probe.output) - 1 <= probe.targetLength
        /\ \A k \in 2..(Len(probe.output) - 1) :
              ~(k >= 18 /\ IsSentenceEnd(probe.output[k]))
        /\ Len(probe.output) - 1 < probe.targetLength =>
              \/ Len(probe.output) >= 18 /\ IsSentenceEnd(Last(probe.output))
              \/ DeadEnd(probe.output, Len(probe.output))
\* an attempt that passes a sentence end as word 17 and stops at the next one,
\* before targetLength steps and not at a dead end
C17_Witness ==
    /\ probe.fn = "generateNeuralText"
    /\ Len(probe.output) = 20 /\ probe.targetLength = 50
    /\ IsSentenceEnd(probe.output[17]) /\ IsSentenceEnd(probe.output[20])
    /\ ~DeadEnd(probe.output, 20)

\* C18: for a context without words generateNeuralText returns the context
\* text unchanged instead of sampling, and for a context of fewer than three
\* words it starts from the first word as the sole starter.
C18_EmptyContextReturned ==
    probe.fn = "generateNeuralText" =>
        /\ (ProbedWords = <<>> /\ probe.outcome # "retry") =>
              probe.outcome = "returned" /\ probe.text = probe.sourceText
        /\ Len(ProbedWords) \in {1, 2} => probe.output[1] = ProbedWords[1]
\* the second half of C18 alone holds: with one or two words the output is
\* the first word; without words the text is empty and never returned
C18_FirstWordStarter ==
    probe.fn = "generateNeuralText" =>
        /\ Len(ProbedWords) \in {1, 2} => probe.output = <<ProbedWords[1]>>
        /\ ProbedWords = <<>> => probe.text = <<>> /\ probe.outcome # "returned"

\* the non-empty words of a text in their order, and the Jaccard index of
\* two texts compared with 7/10
WordSeqOf(text) == SelectSeq(SplitWS(ToLower(text)), LAMBDA w : w # <<>>)
TooSimilar(text1, text2) ==
    10 * Cardinality(WordsOf(text1) \cap WordsOf(text2))
        > 7 * Cardinality(WordsOf(text1) \cup WordsOf(text2))
\* C19: every text generateNeuralText returns has at least 10 characters, a
\* unique-word ratio of at least 0.3 and a Jaccard similarity of at most 0.7
\* to each of the at most 5 recent outputs; validating does not change the
\* recent outputs.
C19_ReturnedTextValid ==
    /\ []( (probe.fn = "generateNeuralText" /\ probe.outcome = "returned") =>
             /\ Len(probe.text) >= 10
             /\ 10 * Cardinality(WordsOf(probe.text)) >= 3 * Len(WordSeqOf(probe.text))
             /\ Len(probe.recent) <= 5
             /\ \A i \in DOMAIN probe.recent : ~TooSimilar(probe.text, probe.recent[i]) )
    /\ [][ (probe.fn = "generateNeuralText" /\ probe'.fn = "generateNeuralText")
             => probe'.recent = probe.recent ]_vars
\* with the similarity as computeSimilarity computes it, C19 holds
C19_ValidAsComputed ==
    /\ []( (probe.fn = "generateNeuralText" /\ probe.outcome = "returned") =>
             /\ Len(probe.text) >= 10
             /\ 10 * Cardinality(WordsOf(probe.text)) >= 3 * Len(WordSeqOf(probe.text))
             /\ Len(probe.recent) <= 5
             /\ \A i \in DOMAIN probe.recent :
                   LET sim == computeSimilarity(probe.text, probe.recent[i])
                   IN  10 * sim[1] <= 7 * sim[2] )
    /\ [][ (probe.fn = "generateNeuralText" /\ probe'.fn = "generateNeuralText")
             => probe'.recent = probe.recent ]_vars
\* a text is returned after a rejected attempt, with five recent outputs
C19_ReturnedAfterRetry ==
    /\ probe.fn = "generateNeuralText" /\ probe.outcome = "returned"
    /\ probe.depth = 2 /\ Len(probe.recent) = 5

\* the weight of a sequence of candidates (their share of the total weight
\* is their cumulative probability), and topP reached by a weight
RECURSIVE WeightOf(_)
WeightOf(cs) == IF cs = <<>> THEN 0 ELSE Pow125Milli[cs[1].count] + WeightOf(Tail(cs))
Reaches(weight, total, topP) == weight * topP.den >= topP.num * total
\* C20: for a non-empty table and topP in (0, 1] the nucleus is the smallest
\* prefix of the candidates in descending probability whose cumulative
\* probability is at least topP, and it contains the first candidate; a smaller
\* topP never gives a larger nucleus; topP = 1 keeps every candidate; the
\* returned word is in the nucleus; an empty table gives null and a table of
\* one candidate that candidate.
C20_Nucleus ==
    /\ [](probe.fn = "sampleWithTemperature" =>
            LET table == probe.candidateFreq
                nucleus == probe.nucleus
                total == WeightOf(table)
            IN  /\ table = <<>> => probe.returned.null
                /\ table # <<>> =>
                     /\ nucleus # <<>>
                     /\ \A i \in DOMAIN nucleus : \E j \in DOMAIN table : table[j] = nucleus[i]
                     /\ \A i, j \in DOMAIN nucleus : i < j => nucleus[i].word # nucleus[j].word
                     /\ \A i, j \in DOMAIN nucleus : i < j => nucleus[i].count >= nucleus[j].count
                     /\ \A j \in DOMAIN table :
                           (\A i \in DOMAIN nucleus : nucleus[i] # table[j])
                              => table[j].count <= Last(nucleus).count
                     /\ \A j \in DOMAIN table : table[j].count <= nucleus[1].count
                     /\ Reaches(WeightOf(nucleus), total, probe.topP)
                     /\ ~Reaches(WeightOf(SubSeq(nucleus, 1, Len(nucleus) - 1)), total, probe.topP)
                     /\ probe.topP.num = probe.topP.den => Len(nucleus) = Len(table)
                     /\ ~probe.returned.null
                     /\ \E i \in DOMAIN nucleus : nucleus[i].word = probe.returned.text
                     /\ Len(table) = 1 => probe.returned.text = table[1].word)
    /\ [][ (probe.fn = "sampleWithTemperature" /\ probe'.fn = "sampleWithTemperature"
              /\ probe'.candidateFreq = probe.candidateFreq
              /\ probe'.topP.num * probe.topP.den <= probe.topP.num * probe'.topP.den)
           => Len(probe'.nucleus) <= Len(probe.nucleus) ]_vars
\* a nucleus of more than one and fewer than all candidates, of a table
\* whose most frequent candidate is not the first key, with the word drawn
\* not the most probable one
C20_Witness ==
    /\ probe.fn = "sampleWithTemperature"
    /\ Len(probe.nucleus) > 1 /\ Len(probe.nucleus) < Len(probe.candidateFreq)
    /\ probe.candidateFreq[1] # probe.nucleus[1]
    /\ probe.returned.text # probe.nucleus[1].word

\* the positions of the probed context at which a pair of words occurs, the
\* positions whose pair is followed by a third word, and the registered
\* starters: the first word and the words after a sentence end that have two
\* words after them, else the first word
PairAt(w1, w2) ==
    {j \in 1..(Len(ProbedWords) - 1) : ProbedWords[j] = w1 /\ ProbedWords[j + 1] = w2}
TripleAt(w1, w2) == {j \in PairAt(w1, w2) : j + 2 <= Len(ProbedWords)}
RegisteredStarters ==
    LET found == {ProbedWords[j] : j \in {i \in 1..(Len(ProbedWords) - 2) :
                                            i = 1 \/ IsSentenceEnd(ProbedWords[i - 1])}}
    IN  IF found # {} THEN found ELSE {FirstWord(ProbedWords)}
\* the next word follows the trigram entry of the last two words if there is
\* one
FollowsTrigrams(out) ==
    \A k \in 2..(Len(out) - 1) :
        TripleAt(out[k - 1], out[k]) # {} =>
            out[k + 1] \in {ProbedWords[j + 2] : j \in TripleAt(out[k - 1], out[k])}
\* C21: in every output of a generation attempt each pair of consecutive
\* words occurs as consecutive words of the context word sequence; where the
\* trigram table has an entry for (previousWord, currentWord) the next word
\* comes from it; the first word is a registered sentence starter.
C21_OutputFollowsContext ==
    probe.fn = "generateNeuralText" =>
        /\ \A k \in 1..(Len(probe.output) - 1) :
              PairAt(probe.output[k], probe.output[k + 1]) # {}
        /\ FollowsTrigrams(probe.output)
        /\ probe.output[1] \in RegisteredStarters
\* in the first call of a process C21 holds
C21_FirstCallFollowsContext ==
    (probe.fn = "generateNeuralText" /\ probe.sourceText # Str(SecondConstructorContext)) =>
        /\ \A k \in 1..(Len(probe.output) - 1) :
              PairAt(probe.output[k], probe.output[k + 1]) # {}
        /\ FollowsTrigrams(probe.output)
        /\ probe.output[1] \in RegisteredStarters

\* a step of init, and the answer of a cached query after an init call that
\* came after the call that cached it
InitStep == initLog'.count # initLog.count
CachedAcrossInit ==
    /\ Len(log) = 2 /\ Answered = {1, 2}
    /\ log[1].state \in TextStates /\ log[1].outcome = "returned"
    /\ log[2].state = "cache"
    /\ CacheKey(log[2].query) = CacheKey(log[1].query)
    /\ log[2].epoch > log[1].epoch
\* C22: init leaves the SessionCache, the KnowledgeCache, the RecentOutputs
\* and the ConversationHistory unchanged, so a query cached before a re-init
\* is still answered with the result computed from the old corpus; an init
\* call with an absent payload also leaves isReady, the corpus entries and
\* the dictionary unchanged.
C22_InitFrame ==
    /\ [][InitStep =>
            /\ UNCHANGED <<responseCache, wikiCache, recentOutputs, conversationHistory>>
            /\ initLog'.null => UNCHANGED <<isReady, memory, dictionary>>]_vars
    /\ [](CachedAcrossInit => log[2].result = log[1].result)
\* a query answered from the entries of the main payload is answered with the
\* same result from the cache after a re-init with a payload without entries
C22_Witness ==
    /\ CachedAcrossInit
    /\ log[1].state \in {"verbatim", "generated"}
    /\ initLog.count = 2 /\ ~initLog.null /\ memory = <<>> /\ isReady

\* the lowercased, trimmed query; a call that is answered from the cache
LoweredTrimmed(query) == Trim(ToLower(query))
CacheHitStep ==
    /\ ops' # ops /\ initLog' = initLog /\ calls' = calls
    /\ log' # <<>> /\ Last(log').state = "cache"
\* C23: a call on a ready engine whose lowercased, trimmed query is a key of
\* the SessionCache returns the stored result without an external lookup and
\* without a generation attempt, and leaves the SessionCache (contents and
\* order), the KnowledgeCache, the ConversationHistory and the RecentOutputs
\* unchanged.
C23_CacheHit ==
    /\ [](\A i \in Answered :
             LET e == log[i]
                 key == LoweredTrimmed(e.query)
             IN  (e.pre.isReady /\ MapHas(e.pre.responseCache, key)) =>
                     /\ e.state = "cache" /\ e.outcome = "returned"
                     /\ e.result = MapGet(e.pre.responseCache, key)
                     /\ e.lookup = "none" /\ e.attempts = 0)
    /\ [][CacheHitStep =>
            UNCHANGED <<responseCache, wikiCache, conversationHistory, recentOutputs,
                        isReady, memory, dictionary>>]_vars
\* a query that differs in case and surrounding whitespace from the query
\* that was cached is answered from the same entry
C23_Witness ==
    /\ Len(log) = 2 /\ Answered = {1, 2}
    /\ log[1].state \in TextStates /\ log[2].state = "cache"
    /\ log[2].query # log[1].query
    /\ ToLower(log[2].query) # log[1].query
    /\ LoweredTrimmed(log[2].query) = log[1].query
    /\ log[2].result = log[1].result

\* a sendMessage invocation with a non-empty text that has not ended
QueryInFlight == \E s \in DOMAIN sends : sends[s].pc \in {"delay", "await"}
SendFailed == \E s \in DOMAIN sends : sends[s].pc = "failed"
\* C24: the send button is disabled exactly while a query is in flight, and
\* after every sendMessage invocation with a non-empty text it is eventually
\* enabled again, whether the answer call returns or fails and however the
\* send events interleave.
C24_ButtonFollowsQuery ==
    /\ [](btnDisabled <=> QueryInFlight)
    /\ [](btnDisabled => <>(~btnDisabled))
\* the two halves alone
C24_DisabledWhileInFlight == btnDisabled <=> QueryInFlight
C24_EventuallyEnabled == btnDisabled ~> ~btnDisabled
\* what holds: a query in flight whose button is enabled comes after another
\* send has ended, and a disabled button is enabled again unless a send has
\* failed
C24_EnabledUnlessFailed ==
    /\ []((QueryInFlight /\ ~btnDisabled) => \E s \in DOMAIN sends : sends[s].pc = "done")
    /\ []((btnDisabled /\ ~QueryInFlight) => SendFailed)
    /\ [](btnDisabled => <>(~btnDisabled \/ SendFailed))
====
